---- MODULE Spec2Model ----
(***************************************************************************)
(* Hymn slide-deck generator and hymn-number extractor.                    *)
(*                                                                         *)
(* Part I models English/generate_english_hcs_ppt.py: the per-file search  *)
(* find_song_slide_indices_in_pptx, the candidate selector                 *)
(* find_best_song_source with its USED_SLIDE_RANGES bookkeeping, the       *)
(* section processors and generate_presentation.                           *)
(* Part II models English/extract_english_hymns.py: extract_hymn_number,   *)
(* with the regular expressions it uses evaluated by a backtracking        *)
(* matcher over character sequences.                                       *)
(***************************************************************************)
EXTENDS Integers, Sequences, FiniteSets, TLC

VARIABLES
    USED_SLIDE_RANGES,  \* dict slide_key -> hymn_num            (module global)
    pptx_files,         \* order in which find_all_pptx_files lists the library
    song_list,          \* the plan handed to generate_presentation
    pos,                \* index of the next request of song_list to process
    prs,                \* slides of the presentation being assembled
    section_start,      \* index in prs of the first slide of each processed request
    last_search,        \* arguments, context and result of the latest find_best_song_source call
    output,             \* slides written by prs.save (<<>> while nothing is saved)
    pc,                 \* position of generate_presentation
    generation,         \* number of generate_presentation invocations so far
    raised,             \* exception raised by the latest generate_presentation (<<>> for none)
    template_path,      \* local template_path of generate_presentation ("" for None)
    text,               \* input of extract_hymn_number
    nfrag,              \* number of fragments the input text was built from
    hymn_number,        \* result of extract_hymn_number
    xpc,                \* position of the extractor run
    file_slides,        \* slides of the file handed to analyze_pptx_file
    slide_idx,          \* 1-based index of the next slide analyze_pptx_file reads
    hymns,              \* runs closed so far
    current_hymn,       \* the open run: <<>> for None, <<run>> otherwise
    returned,           \* list returned by the latest completed analyze_pptx_file call
    first_returned,     \* list returned by the first call on this file
    calls,              \* number of analyze_pptx_file calls started on this file
    apc,                \* position of analyze_pptx_file
    language,           \* the extractor module whose analyze_pptx_file runs
    regular_found,      \* what find_song_slide_indices_in_pptx finds, per regular file and hymn
    used_ranges,        \* USED_SLIDE_RANGES of the Malayalam generator
    requested_hymn,     \* argument hymn_num of the Malayalam find_best_song_source
    best_found,         \* its locals best_source, best_count, best_title_idx, best_content
    file_pos,           \* index of the next file of the loop that is running
    searched,           \* files searched by this call, in order
    accepted,           \* files whose candidate this call accepted, in order
    fpc,                \* position of find_best_song_source
    fcalls,             \* number of find_best_song_source calls so far
    batch_lines,        \* the lines of the plan file the reader loops over
    batch_pos,          \* index of the next line
    songs,              \* the requests parsed so far
    batch_language,     \* local language of main
    service_date,       \* local service_date
    printed,            \* what the reader has printed, in order
    parser,             \* the reader that runs
    ppc,                \* position of the reader
    generate_btn,       \* state option of the GUI's Generate button
    progress,           \* the GUI's progress bar
    source_folder,      \* what the source folder field holds when the button is clicked
    service_text,       \* what the service list box holds when the button is clicked
    messagebox,         \* title of the latest message box
    threads,            \* position of each worker thread started so far
    temp_batch_file,    \* whether Desktop/.temp_service.txt exists
    output_file,        \* whether the output deck exists on the Desktop
    clicks,             \* number of clicks on the Generate button so far
    sys_argv,           \* sys.argv of the process
    cwd,                \* current working directory of the process
    originals,          \* original_argv and original_cwd of each worker thread
    started_with,       \* sys.argv and the directory when each worker was started
    scan_deck,          \* prs.slides of the file find_song_slide_indices_in_pptx reads
    scan_target,        \* its local target
    scan_hint,          \* its argument song_title_hint
    scan_state,         \* the locals its loop updates
    scan_i,             \* position of the next slide in the deck
    scan_found,         \* the triple it returned
    scan_pc,            \* position of the search
    heading_text,       \* run.text of the one run of the slide, or a run's title
    heading_pieces,     \* number of pieces the text was put together from
    returned_title,     \* what extract_title_from_slide_heading returned
    normalized_title,   \* normalized_title of the deduplication loop
    tpc                 \* position of the title functions

genvars == <<USED_SLIDE_RANGES, pptx_files, song_list, pos, prs, section_start,
             last_search, output, pc, generation, raised,
             template_path>>
xvars == <<text, nfrag, hymn_number, xpc>>
svars == <<file_slides, slide_idx, hymns, current_hymn, returned, first_returned, calls, apc,
           language>>
fvars == <<regular_found, used_ranges, requested_hymn, best_found, file_pos, searched,
           accepted, fpc, fcalls>>
pvars == <<batch_lines, batch_pos, songs, batch_language, service_date, printed, parser, ppc>>
procvars == <<sys_argv, cwd, originals, started_with>>
guivars == <<generate_btn, progress, source_folder, service_text, messagebox, threads,
             temp_batch_file, output_file, clicks, procvars>>
scanvars == <<scan_deck, scan_target, scan_hint, scan_state, scan_i, scan_found, scan_pc>>
tvars == <<heading_text, heading_pieces, returned_title, normalized_title, tpc>>
vars == <<genvars, xvars, svars, fvars, pvars, guivars, scanvars, tvars>>

\* What the actions of one part leave alone: the variables of the other parts.
start_frame == <<xvars, svars, fvars, pvars, guivars, scanvars, tvars>>
gen_frame == <<start_frame, raised, template_path>>
x_frame == <<genvars, svars, fvars, pvars, guivars, scanvars, tvars>>
s_frame == <<genvars, xvars, fvars, pvars, guivars, scanvars, tvars>>
f_frame == <<genvars, xvars, svars, pvars, guivars, scanvars, tvars>>
p_frame == <<genvars, xvars, svars, fvars, guivars, scanvars, tvars>>
gui_frame == <<genvars, xvars, svars, fvars, pvars, scanvars, tvars>>
scan_frame == <<genvars, xvars, svars, fvars, pvars, guivars, tvars>>
t_frame == <<genvars, xvars, svars, fvars, pvars, guivars, scanvars>>

(***************************************************************************)
(* Bounds                                                                  *)
(***************************************************************************)
MaxPlanLen == 3
MaxGenerations == 2
MaxFrags == 3

(***************************************************************************)
(* Generic helpers                                                         *)
(***************************************************************************)
Range(s) == {s[i] : i \in DOMAIN s}

SeqMin(s) == CHOOSE x \in Range(s) : \A y \in Range(s) : x <= y
SeqMax(s) == CHOOSE x \in Range(s) : \A y \in Range(s) : x >= y

EmptyMap == [k \in {} |-> ""]

Permutations2(S) == {p \in [1..Cardinality(S) -> S] : \A i, j \in DOMAIN p : i # j => p[i] # p[j]}

\* The characters of the texts, which are sequences of one-character strings.
Digits == {"0", "1", "2", "3", "4", "5", "6", "7", "8", "9"}
DigitSeq == <<"0", "1", "2", "3", "4", "5", "6", "7", "8", "9">>
LowerCase == <<"a", "b", "c", "d", "e", "f", "g", "h", "i", "j", "k", "l", "m",
               "n", "o", "p", "q", "r", "s", "t", "u", "v", "w", "x", "y", "z">>
UpperCase == <<"A", "B", "C", "D", "E", "F", "G", "H", "I", "J", "K", "L", "M",
               "N", "O", "P", "Q", "R", "S", "T", "U", "V", "W", "X", "Y", "Z">>
Letters == Range(LowerCase) \cup Range(UpperCase)
WordChars == Letters \cup Digits \cup {"_"}
Whitespace == {" ", "\n", "\t"}

\* str.lower(), character by character
LowerChar(c) ==
    IF \E i \in 1..26 : UpperCase[i] = c
    THEN LowerCase[CHOOSE i \in 1..26 : UpperCase[i] = c]
    ELSE IF c = "U+00C4" THEN "U+00E4"
    ELSE IF c = "U+00CC" THEN "U+00EC"
    ELSE c
lower(t) == [i \in 1..Len(t) |-> LowerChar(t[i])]

\* str.strip()
RECURSIVE lstrip(_), rstrip(_)
lstrip(t) == IF t # <<>> /\ t[1] \in Whitespace THEN lstrip(Tail(t)) ELSE t
rstrip(t) ==
    IF t # <<>> /\ t[Len(t)] \in Whitespace THEN rstrip(SubSeq(t, 1, Len(t) - 1)) ELSE t
strip(t) == rstrip(lstrip(t))

\* "x in t" for strings
contains(t, x) ==
    \E i \in 1..(Len(t) - Len(x) + 1) : SubSeq(t, i, i + Len(x) - 1) = x

(***************************************************************************)
(* PART I - the generator                                                  *)
(***************************************************************************)
\* A source slide is represented by the values of the text predicates the
\* search evaluates on it ("" stands for an absent value):
\*   hdr         number captured by the "Hymn No N" / "Song No N" header regex
\*   paren       number captured by the parenthetical regex "(N)"
\*   sec         first section keyword contained in the slide text
\*   hymn_word   "Hymn" in all_text or "Song" in all_text
\*   first_line  normalised first line of a text box (title matching)
\*   lyrics      slide_has_lyrics(all_text)
\*   image_only  is_image_only_slide(slide)
\*   len         len(all_text.strip())
\*   title_slide is_title_slide(all_text, slide)
\*   etitle      first line of the largest English text box
\*   alt_title   first line of a non-label text box of at least 10 characters
\*   index_page  more than four 2-3 digit numbers on the slide
TitleSlide(n, sec, title) ==
    [hdr |-> n, paren |-> "", sec |-> sec, hymn_word |-> TRUE, first_line |-> title,
     lyrics |-> FALSE, image_only |-> TRUE, len |-> 40, title_slide |-> TRUE,
     etitle |-> title, alt_title |-> title, index_page |-> FALSE]

LyricsSlide(paren) ==
    [hdr |-> "", paren |-> paren, sec |-> "", hymn_word |-> FALSE, first_line |-> "",
     lyrics |-> TRUE, image_only |-> FALSE, len |-> 150, title_slide |-> FALSE,
     etitle |-> "", alt_title |-> "", index_page |-> FALSE]

IndexPage ==
    [hdr |-> "42", paren |-> "", sec |-> "Opening", hymn_word |-> TRUE, first_line |-> "",
     lyrics |-> TRUE, image_only |-> FALSE, len |-> 150, title_slide |-> FALSE,
     etitle |-> "", alt_title |-> "", index_page |-> TRUE]

DividerSlide ==
    [hdr |-> "", paren |-> "", sec |-> "", hymn_word |-> FALSE, first_line |-> "",
     lyrics |-> FALSE, image_only |-> TRUE, len |-> 5, title_slide |-> FALSE,
     etitle |-> "", alt_title |-> "", index_page |-> FALSE]

\* File A: hymn 42 with 3 content slides, hymn 91 with 5, hymn 313 with 3.
FileA ==
    <<TitleSlide("42", "Confession", "amazing grace"),
      LyricsSlide(""), LyricsSlide(""), LyricsSlide(""),
      TitleSlide("91", "Opening", "praise my soul"),
      LyricsSlide(""), LyricsSlide(""), DividerSlide, LyricsSlide(""), LyricsSlide(""),
      LyricsSlide(""),
      TitleSlide("313", "Communion", ""),
      LyricsSlide(""), LyricsSlide(""), LyricsSlide("")>>

\* File B: an index page, then hymn 42 with 6 content slides, one of which
\* carries the parenthetical "(7)" in its lyrics, then another hymn.
FileB ==
    <<IndexPage,
      TitleSlide("42", "Communion", "amazing grace"),
      LyricsSlide(""), LyricsSlide(""), LyricsSlide("7"), LyricsSlide(""),
      LyricsSlide(""), LyricsSlide(""),
      TitleSlide("55", "Closing", "abide with me"),
      LyricsSlide("")>>

Files == {"A.pptx", "B.pptx"}

Library == [f \in Files |-> IF f = "A.pptx" THEN FileA ELSE FileB]

SongNotFound == "(Song not found)"

Sections == <<"Opening", "Confession", "Offertory", "Thanksgiving", "Communion",
              "Closing", "Dedication", "B/A">>

\* The title hints and search phrases of the model, as texts.
HintTexts ==
    [h \in {"", "ab", "amazing grace", "Amazing Grace!", "praise my soul", "abide with me", "no such song", "such song", "(Song not found)", "song not found",
           "praise soul", "abide with"} |->
     CASE h = "" -> <<>> []
      h = "ab" -> <<"a", "b">> []
      h = "amazing grace" -> <<"a", "m", "a", "z", "i", "n", "g", " ", "g", "r", "a", "c", "e">> []
      h = "Amazing Grace!" -> <<"A", "m", "a", "z", "i", "n", "g", " ", "G", "r", "a", "c", "e", "!">> []
      h = "praise my soul" -> <<"p", "r", "a", "i", "s", "e", " ", "m", "y", " ", "s", "o", "u", "l">> []
      h = "abide with me" -> <<"a", "b", "i", "d", "e", " ", "w", "i", "t", "h", " ", "m", "e">> []
      h = "no such song" -> <<"n", "o", " ", "s", "u", "c", "h", " ", "s", "o", "n", "g">> []
      h = "such song" -> <<"s", "u", "c", "h", " ", "s", "o", "n", "g">> []
      h = "(Song not found)" -> <<"(", "S", "o", "n", "g", " ", "n", "o", "t", " ", "f", "o", "u", "n", "d", ")">> []
      h = "song not found" -> <<"s", "o", "n", "g", " ", "n", "o", "t", " ", "f", "o", "u", "n", "d">> []
      h = "praise soul" -> <<"p", "r", "a", "i", "s", "e", " ", "s", "o", "u", "l">> []
      h = "abide with" -> <<"a", "b", "i", "d", "e", " ", "w", "i", "t", "h">>]
hint_string(t) == CHOOSE h \in DOMAIN HintTexts : HintTexts[h] = t

\* re.sub(r'[^a-z0-9\s]', '', song_title_hint.lower())
IsLowerDigitOrSpace(c) == c \in Range(LowerCase) \cup Digits \cup Whitespace
normalized_hint(t) == SelectSeq(lower(t), IsLowerDigitOrSpace)

\* str.split_words(): the words between runs of whitespace
RECURSIVE word_end(_, _), split_words(_)
word_end(t, i) == IF i > Len(t) \/ t[i] \in Whitespace THEN i ELSE word_end(t, i + 1)
split_stripped(t) ==
    IF t = <<>> THEN <<>>
    ELSE <<SubSeq(t, 1, word_end(t, 1) - 1)>> \o split_words(SubSeq(t, word_end(t, 1), Len(t)))
split_words(t) == split_stripped(lstrip(t))

\* ' '.join(ws)
RECURSIVE join(_)
join(ws) == IF Len(ws) = 1 THEN ws[1] ELSE ws[1] \o <<" ">> \o join(Tail(ws))

\* words = [w for w in normalized_title.split_words() if len(w) > 2]
IsLongWord(w) == Len(w) > 2
\* min(4, len(words)) if len(words) >= 4 else min(3, len(words))
num_words(ws) == IF Len(ws) >= 4 THEN 4 ELSE IF Len(ws) < 3 THEN Len(ws) ELSE 3
phrase_of_words(ws) == IF ws = <<>> THEN <<>> ELSE join(SubSeq(ws, 1, num_words(ws)))

\* title_search_phrase: "" unless the hint has more than 2 characters, then
\* the first three or four words of more than two characters of the hint
phrase_of_hint(song_title_hint) ==
    IF Len(HintTexts[song_title_hint]) <= 2 THEN ""
    ELSE hint_string(
             phrase_of_words(SelectSeq(split_words(normalized_hint(HintTexts[song_title_hint])),
                                       IsLongWord)))
\* the phrase of each hint of the model, computed once
title_search_phrases == [h \in DOMAIN HintTexts |-> phrase_of_hint(h)]
title_search_phrase(song_title_hint) == title_search_phrases[song_title_hint]

\* "if title_search_phrase" and "title_search_phrase in normalized_first_line"
phrase_in_first_line(phrase, s) ==
    phrase # "" /\ contains(HintTexts[s.first_line], HintTexts[phrase])

\* build_hymn_pattern(num) matched against the slide text.
find_hymn_in_text(target_num, s) ==
    /\ target_num # ""
    /\ (s.hdr = target_num \/ s.paren = target_num)

InitScan ==
    [collecting |-> FALSE, title_slide_idx |-> -1, content_indices |-> <<>>,
     found_hymn_num |-> "", found_section |-> "", extracted_title |-> "",
     stopped |-> FALSE]

\* One iteration of the loop over prs.slides; i is the 0-based slide index.
ScanSlide(s, i, target, song_title_hint, phrase, st) ==
    LET hymn_match == find_hymn_in_text(target, s)
        title_match == phrase_in_first_line(phrase, s)
        is_match == IF target # "" /\ song_title_hint # "" THEN hymn_match \/ title_match
                    ELSE IF target # "" THEN hymn_match
                    ELSE title_match
        found == IF s.hdr # "" THEN s.hdr ELSE s.paren
        has_our_hymn == IF target # "" THEN find_hymn_in_text(target, s)
                        ELSE find_hymn_in_text(st.found_hymn_num, s)
        has_our_title == phrase_in_first_line(phrase, s)
        check_hymn == IF target # "" THEN target ELSE st.found_hymn_num
        is_different_section ==
            /\ s.sec # "" /\ s.sec # "B/A" /\ s.hymn_word
            /\ st.found_section # "" /\ s.sec # st.found_section
        brk == [st EXCEPT !.stopped = TRUE]
    IN
    IF s.index_page THEN st
    ELSE IF is_match /\ ~st.collecting THEN
        IF target # "" /\ song_title_hint = "" /\ found # target THEN st
        ELSE [st EXCEPT !.collecting = TRUE,
                        !.title_slide_idx = i,
                        !.found_hymn_num = found,
                        !.found_section = s.sec,
                        !.extracted_title = s.etitle,
                        !.content_indices =
                            IF s.lyrics /\ ~s.image_only THEN Append(@, i) ELSE @]
    ELSE IF st.collecting THEN
        IF s.len < 20 THEN st
        ELSE IF is_different_section /\ ~has_our_hymn THEN brk
        ELSE IF check_hymn # "" /\ s.hdr # "" /\ s.hdr # check_hymn THEN brk
        ELSE IF check_hymn = "" /\ s.hdr # "" /\ ~has_our_title THEN brk
        ELSE IF s.title_slide /\ ~has_our_hymn THEN brk
        ELSE IF s.title_slide /\ s.len < 100 THEN st
        ELSE IF s.image_only THEN st
        ELSE [st EXCEPT !.content_indices = Append(@, i)]
    ELSE st

RECURSIVE ScanFrom(_, _, _, _, _, _)
ScanFrom(slides, k, target, song_title_hint, phrase, st) ==
    IF k > Len(slides) \/ st.stopped THEN st
    ELSE ScanFrom(slides, k + 1, target, song_title_hint, phrase,
                  ScanSlide(slides[k], k - 1, target, song_title_hint, phrase, st))

NoMatch == [title_idx |-> -1, content |-> <<>>, title |-> ""]

\* After the loop: the title fallbacks and the returned triple.
scan_result(slides, st) ==
    LET c == st.content_indices
        t1 == st.extracted_title
        t2 == IF t1 = "" /\ c # <<>> THEN slides[c[1] + 1].etitle ELSE t1
        t3 == IF t2 = "" /\ st.title_slide_idx # -1 /\ c # <<>>
              THEN slides[st.title_slide_idx + 1].alt_title ELSE t2
    IN [title_idx |-> st.title_slide_idx, content |-> c, title |-> t3]

find_song_slide_indices_in_pptx(pptx_path, target_hymn_num, song_title_hint) ==
    IF target_hymn_num = "" /\ song_title_hint = "" THEN NoMatch
    ELSE scan_result(Library[pptx_path],
                     ScanFrom(Library[pptx_path], 1, target_hymn_num, song_title_hint,
                              title_search_phrase(song_title_hint), InitScan))

\* The search is a pure function of the file and the request; its results for
\* the hymn numbers and title hints of the model are tabulated once.
HymnNums == {"", "42", "43", "7", "91", "313", "999"}
TitleHints == {"", "amazing grace", "praise my soul", "abide with me", "no such song",
               SongNotFound, "Amazing Grace!"}
SearchTable ==
    [f \in Files, h \in HymnNums, t \in TitleHints |->
        find_song_slide_indices_in_pptx(f, h, t)]

\* f"{pf}:{min(c_indices)}-{max(c_indices)}": the path, then two decimal
\* integers after the last ':' and the last '-'; distinct triples give
\* distinct strings, so the key is kept as the triple.
slide_key(pf, c_indices) == <<pf, SeqMin(c_indices), SeqMax(c_indices)>>

\* slide_key not in USED_SLIDE_RANGES or USED_SLIDE_RANGES[slide_key] == hymn_num
range_available_Strict(used, key, hymn_num) == key \notin DOMAIN used
range_available(used, key, hymn_num) ==
    key \notin DOMAIN used \/ used[key] = hymn_num

\* c_indices and len(c_indices) > best_count
better_candidate_Any(c_indices, best_count) == c_indices # <<>>
better_candidate(c_indices, best_count) ==
    c_indices # <<>> /\ Len(c_indices) > best_count

NoSource == [source |-> "", count |-> 0, title_idx |-> -1, content |-> <<>>, title |-> ""]

\* The body of "for pf in pptx_files" for the search result r of file pf.
consider_candidate(pf, r, used, hymn_num, best) ==
    IF /\ better_candidate(r.content, best.count)
       /\ range_available(used, slide_key(pf, r.content), hymn_num)
    THEN [source |-> pf, count |-> Len(r.content), title_idx |-> r.title_idx,
          content |-> r.content, title |-> r.title]
    ELSE best

RECURSIVE SearchFiles(_, _, _, _, _, _)
SearchFiles(files, k, hymn_num, song_name, used, best) ==
    IF k > Len(files) THEN best
    ELSE SearchFiles(files, k + 1, hymn_num, song_name, used,
                     consider_candidate(files[k], SearchTable[files[k], hymn_num, song_name],
                                        used, hymn_num, best))

\* Returns the chosen source and the updated USED_SLIDE_RANGES.
mark_used(used, key, hymn_num) ==
    [k \in DOMAIN used \cup {key} |-> IF k = key THEN hymn_num ELSE used[k]]

\* "if best_source and best_content: USED_SLIDE_RANGES[slide_key] = hymn_num"
record_best(used, best, hymn_num) ==
    [best |-> best,
     used |-> IF best.source # "" /\ best.content # <<>>
              THEN mark_used(used, slide_key(best.source, best.content), hymn_num)
              ELSE used]

find_best_song_source(files, used, hymn_num, song_name) ==
    record_best(used, SearchFiles(files, 1, hymn_num, song_name, used, NoSource), hymn_num)

(***************************************************************************)
(* Slides of the generated presentation.  hymn and name are the two        *)
(* variable parts of the text the slide shows: "Hymn No <hymn>" and the    *)
(* song name; file and idx name the source slide of a cloned slide.        *)
(***************************************************************************)
DeckSlide(kind, label, hymn, name, file, idx) ==
    [kind |-> kind, label |-> label, hymn |-> hymn, name |-> name, file |-> file, idx |-> idx]

\* run2.text = "Hymn No {hymn_num}" if hymn_num, else song_name, else ""
title_line_name(hymn_num, song_name) == IF hymn_num # "" THEN "" ELSE song_name

add_title_slide(song_label, hymn_num, song_name) ==
    DeckSlide("title",
              IF song_label = "ThanksGiving" THEN "ThanksGiving Prayers" ELSE song_label,
              hymn_num, title_line_name(hymn_num, song_name), "", -1)

add_message_slide == DeckSlide("message", "Message", "", "", "", -1)

add_holy_communion_intro_slide(hymn_num, song_name) ==
    DeckSlide("hc_intro", "Holy Communion", hymn_num,
              title_line_name(hymn_num, song_name), "", -1)

create_summary_slide == DeckSlide("summary", "", "", "", "", -1)

clone_slides_from_source_SkipLast(source_pptx_path, slide_indices, song_label, hymn_num, song_name) ==
    LET kept == SelectSeq(slide_indices, LAMBDA i : i + 1 < Len(Library[source_pptx_path]))
    IN [j \in 1..Len(kept) |->
            DeckSlide("content", song_label, hymn_num, song_name, source_pptx_path, kept[j])]
clone_slides_from_source(source_pptx_path, slide_indices, song_label, hymn_num, song_name) ==
    LET kept == SelectSeq(slide_indices, LAMBDA i : i < Len(Library[source_pptx_path]))
    IN [j \in 1..Len(kept) |->
            DeckSlide("content", song_label, hymn_num, song_name, source_pptx_path, kept[j])]

\* The slides emitted for a request that was not resolved.
placeholder_slides_None(label, hymn_num, song_name) == <<>>
placeholder_slides(label, hymn_num, song_name) ==
    LET shown == IF song_name # "" THEN song_name ELSE SongNotFound
    IN IF label = "Communion"
       THEN <<add_holy_communion_intro_slide(hymn_num, shown)>>
       ELSE IF label = "Offertory"
       THEN <<add_title_slide(label, hymn_num, shown),
              DeckSlide("qr", label, hymn_num, "", "", -1)>>
       ELSE <<add_title_slide(label, hymn_num, shown)>>

\* process_opening_song ... process_generic_song: the slides added to prs and
\* the title handed back to generate_presentation.
process_song(label, hymn_num, song_name, best) ==
    IF best.source # "" /\ best.content # <<>>
    THEN LET display_title == IF best.title # "" THEN best.title ELSE song_name
         IN [slides |-> << IF label = "Communion"
                           THEN add_holy_communion_intro_slide(hymn_num, display_title)
                           ELSE add_title_slide(label, hymn_num, display_title) >>
                        \o clone_slides_from_source(best.source, best.content, label,
                                                    hymn_num, display_title),
             title |-> display_title]
    ELSE [slides |-> placeholder_slides(label, hymn_num, song_name),
          title |-> IF label = "Offertory"
                    THEN (IF song_name # "" THEN song_name ELSE SongNotFound)
                    ELSE song_name]

\* label.lower() for the labels of the model.
label_lower(label) ==
    CASE label = "Opening" -> "opening"
      [] label = "Confession" -> "confession"
      [] label = "Communion" -> "communion"
      [] label = "Offertory" -> "offertory"
      [] label = "Closing" -> "closing"
      [] label = "Message" -> "message"
      [] label = "Thanksgiving" -> "thanksgiving"
      [] OTHER -> label

\* The label each branch of generate_presentation's routing passes on.
routed_label(label) ==
    LET l == label_lower(label) IN
    CASE l = "opening" -> "Opening"
      [] l \in {"thanksgiving", "thanksgiving prayers", "b/a"} -> "ThanksGiving"
      [] l = "offertory" -> "Offertory"
      [] l = "confession" -> "Confession"
      [] l \in {"communion", "holy communion"} -> "Communion"
      [] l = "closing" -> "Closing"
      [] l = "dedication" -> "Dedication"
      [] OTHER -> label

\* USED_SLIDE_RANGES = {} at the top of generate_presentation
reset_used_slide_ranges_Keep(used) == used
reset_used_slide_ranges(used) == EmptyMap

Req(h, l, t) == [hymn_num |-> h, label |-> l, title_hint |-> t]

Requests ==
    { Req("42", "Confession", ""), Req("42", "Communion", ""),
      Req("43", "Opening", "amazing grace"), Req("7", "Closing", ""),
      Req("91", "Opening", ""), Req("", "Message", ""),
      Req("313", "Communion", ""), Req("999", "Opening", ""),
      Req("999", "Offertory", "no such song"),
      Req("", "Thanksgiving", "amazing grace") }

Plans == UNION {[1..n -> Requests] : n \in 1..MaxPlanLen}

NoSearch == [called |-> FALSE, hymn_num |-> "", song_name |-> "", used_before |-> EmptyMap,
             source |-> "", content |-> <<>>]

GenInit ==
    /\ USED_SLIDE_RANGES = EmptyMap
    /\ pptx_files \in Permutations2(Files)
    /\ song_list = <<>>
    /\ pos = 1
    /\ prs = <<>>
    /\ section_start = <<>>
    /\ last_search = NoSearch
    /\ output = <<>>
    /\ pc = "idle"
    /\ generation = 0
    /\ raised = <<>>
    /\ template_path = ""

\* Python's None as the result of extract_hymn_number; a returned number is
\* the non-empty sequence of its digit characters.
None == <<>>

XOff ==
    /\ text = <<>>
    /\ nfrag = 0
    /\ hymn_number = None
    /\ xpc = "off"

SOff ==
    /\ file_slides = <<>>
    /\ slide_idx = 1
    /\ hymns = <<>>
    /\ current_hymn = <<>>
    /\ returned = <<>>
    /\ first_returned = <<>>
    /\ calls = 0
    /\ apc = "off"
    /\ language = "English"

FOff ==
    /\ regular_found = <<>>
    /\ used_ranges = EmptyMap
    /\ requested_hymn = ""
    /\ best_found = <<>>
    /\ file_pos = 1
    /\ searched = <<>>
    /\ accepted = <<>>
    /\ fpc = "off"
    /\ fcalls = 0

POff ==
    /\ batch_lines = <<>>
    /\ batch_pos = 1
    /\ songs = <<>>
    /\ batch_language = ""
    /\ service_date = "None"
    /\ printed = <<>>
    /\ parser = ""
    /\ ppc = "off"

\* no window
GuiOff ==
    /\ generate_btn = "off"
    /\ progress = "stopped"
    /\ source_folder = ""
    /\ service_text = ""
    /\ messagebox = ""
    /\ threads = <<>>
    /\ temp_batch_file = FALSE
    /\ output_file = FALSE
    /\ clicks = 0
    /\ sys_argv = ""
    /\ cwd = ""
    /\ originals = <<>>
    /\ started_with = <<>>

\* no search of a single file
ScanOff ==
    /\ scan_deck = <<>>
    /\ scan_target = ""
    /\ scan_hint = ""
    /\ scan_state = InitScan
    /\ scan_i = 1
    /\ scan_found = NoMatch
    /\ scan_pc = "off"

TOff ==
    /\ heading_text = <<>>
    /\ heading_pieces = 0
    /\ returned_title = None
    /\ normalized_title = None
    /\ tpc = "off"

Init == GenInit /\ XOff /\ SOff /\ FOff /\ POff /\ GuiOff /\ ScanOff /\ TOff

\* The places find_template_ppt looks at: the search roots, in order, and the
\* static path TEMPLATE_PPT, which lies under ONEDRIVE_GIT_LOCAL.  A path is
\* represented by its file name.
search_roots == <<"cwd", "PARENT_DIR", "ONEDRIVE_GIT_LOCAL">>
template_name == "8 Feb 2026.pptx"
TEMPLATE_PPT == "8 Feb 2026.pptx"

\* A file system: the roots that are directories with a file template_name
\* somewhere below them, and whether TEMPLATE_PPT exists.
FileSystems ==
    {fs \in [holding : SUBSET {search_roots[i] : i \in 1..Len(search_roots)},
              static : BOOLEAN] :
        fs.static => "ONEDRIVE_GIT_LOCAL" \in fs.holding}

\* the path returned, "" for None
find_template_ppt(fs) ==
    IF \E i \in 1..Len(search_roots) : search_roots[i] \in fs.holding THEN template_name
    ELSE IF fs.static THEN TEMPLATE_PPT
    ELSE ""

\* what find_template_ppt can return
TemplatePaths == {find_template_ppt(fs) : fs \in FileSystems}

\* "if not template_path: raise FileNotFoundError(...)"
template_located_Always(path) == TRUE
template_located(path) == path # ""

\* the exception of generate_presentation and the file its message names
TemplateNotFound == [type |-> "FileNotFoundError", names |-> "8 Feb 2026.pptx"]

\* generate_presentation up to the loop: reset, template lookup, summary slide.
GenerateStart(plan, path) ==
    /\ generation' = generation + 1
    /\ USED_SLIDE_RANGES' = reset_used_slide_ranges(USED_SLIDE_RANGES)
    /\ song_list' = plan
    /\ pos' = 1
    /\ section_start' = <<>>
    /\ last_search' = NoSearch
    /\ output' = <<>>
    /\ template_path' = path
    /\ IF template_located(path)
       THEN /\ prs' = <<create_summary_slide>>
            /\ pc' = "processing"
            /\ raised' = <<>>
       ELSE /\ prs' = <<>>
            /\ pc' = "failed"
            /\ raised' = TemplateNotFound
    /\ UNCHANGED <<pptx_files, start_frame>>

\* A caller (main, the GUI worker, the web module) invokes generate_presentation.
Generate ==
    /\ pc = "idle"
    /\ generation < MaxGenerations
    /\ \E plan \in Plans, path \in TemplatePaths : GenerateStart(plan, path)

\* The effect of one process_* call: found is what find_best_song_source
\* returned and recorded, res the slides and the title of the processor.
SongProcessed(song_info, found, res) ==
    /\ prs' = prs \o res.slides
    /\ USED_SLIDE_RANGES' = found.used
    /\ last_search' = [called |-> TRUE, hymn_num |-> song_info.hymn_num,
                       song_name |-> song_info.title_hint,
                       used_before |-> USED_SLIDE_RANGES,
                       source |-> found.best.source,
                       content |-> found.best.content]
    /\ song_list' = IF res.title # ""
                    THEN [song_list EXCEPT ![pos].title_hint = res.title]
                    ELSE song_list

ProcessSong(song_info, found) ==
    SongProcessed(song_info, found,
                  process_song(routed_label(song_info.label), song_info.hymn_num,
                               song_info.title_hint, found.best))

\* One iteration of "for song_info in song_list".
ProcessRequest ==
    /\ pc = "processing"
    /\ pos <= Len(song_list)
    /\ IF label_lower(song_list[pos].label) = "message"
       THEN /\ prs' = Append(prs, add_message_slide)
            /\ last_search' = NoSearch
            /\ UNCHANGED <<USED_SLIDE_RANGES, song_list>>
       ELSE ProcessSong(song_list[pos],
                        find_best_song_source(pptx_files, USED_SLIDE_RANGES,
                                              song_list[pos].hymn_num,
                                              song_list[pos].title_hint))
    /\ section_start' = Append(section_start, Len(prs) + 1)
    /\ pos' = pos + 1
    /\ UNCHANGED <<pptx_files, output, pc, generation, gen_frame>>

\* After the loop: update_summary_slide_from_slides, prs.save(output_path).
GenerateFinish ==
    /\ pc = "processing"
    /\ pos > Len(song_list)
    /\ output' = prs
    /\ pc' = "saved"
    /\ UNCHANGED <<USED_SLIDE_RANGES, pptx_files, song_list, pos, prs, section_start,
                   last_search, generation, gen_frame>>

\* generate_presentation returns (or its FileNotFoundError propagates): the
\* locals of the invocation are dropped, the module global stays.
GenerateReturn ==
    /\ pc \in {"saved", "failed"}
    /\ pc' = "idle"
    /\ song_list' = <<>>
    /\ pos' = 1
    /\ prs' = <<>>
    /\ section_start' = <<>>
    /\ last_search' = NoSearch
    /\ output' = <<>>
    /\ template_path' = ""
    /\ UNCHANGED <<USED_SLIDE_RANGES, pptx_files, generation, start_frame, raised>>

Next ==
    \/ Generate
    \/ ProcessRequest
    \/ GenerateFinish
    \/ GenerateReturn

Spec == Init /\ [][Next]_vars

\* Services whose lines carry a title hint and no hymn number.
TitleOnlyRequests ==
    { Req("", "Opening", "amazing grace"), Req("", "Thanksgiving", "Amazing Grace!"),
      Req("", "Offertory", "praise my soul"), Req("", "Closing", "abide with me"),
      Req("", "Communion", "no such song") }

TitleOnlyPlans == UNION {[1..n -> TitleOnlyRequests] : n \in 1..MaxPlanLen}

GenerateTitleOnly ==
    /\ pc = "idle"
    /\ generation < MaxGenerations
    /\ \E plan \in TitleOnlyPlans, path \in TemplatePaths : GenerateStart(plan, path)

NextTitleOnly ==
    \/ GenerateTitleOnly
    \/ ProcessRequest
    \/ GenerateFinish
    \/ GenerateReturn

SpecTitleOnly == Init /\ [][NextTitleOnly]_vars

(***************************************************************************)
(* Properties of the generator                                             *)
(***************************************************************************)
\* What each file yields for the request of the latest search.
FoundIn(pf) == SearchTable[pf, last_search.hymn_num, last_search.song_name].content

\* The range of c in pf is recorded under another hymn number than h.
ClaimedByOther(used, pf, c, h) ==
    \E k \in DOMAIN used :
        /\ k[1] = pf /\ k[2] = SeqMin(c) /\ k[3] = SeqMax(c)
        /\ used[k] # h

ClaimedBySame(used, pf, c, h) ==
    \E k \in DOMAIN used :
        /\ k[1] = pf /\ k[2] = SeqMin(c) /\ k[3] = SeqMax(c)
        /\ used[k] = h

Eligible ==
    {pf \in Files : /\ FoundIn(pf) # <<>>
                    /\ ~ClaimedByOther(last_search.used_before, pf, FoundIn(pf),
                                       last_search.hymn_num)}

\* C1: find_best_song_source returns, among the candidates whose slide range
\* is not claimed by a different hymn number, one with the greatest number of
\* content slides, whatever the order in which the files are enumerated
\* (and nothing when there is no such candidate).
C1_LargestUnclaimedCandidate ==
    last_search.called =>
        IF Eligible = {}
        THEN last_search.source = ""
        ELSE /\ last_search.source \in Eligible
             /\ last_search.content = FoundIn(last_search.source)
             /\ \A pf \in Eligible : Len(last_search.content) >= Len(FoundIn(pf))

\* File B (6 content slides for hymn 42) is enumerated before file A (3
\* content slides) and B's range is the one selected.
C1_Witness ==
    /\ last_search.called
    /\ last_search.hymn_num = "42"
    /\ pptx_files = <<"B.pptx", "A.pptx">>
    /\ Len(FoundIn("A.pptx")) = 3
    /\ Len(FoundIn("B.pptx")) = 6
    /\ last_search.source = "B.pptx"
    /\ Len(last_search.content) = 6

\* C2: a candidate whose range is already recorded in USED_SLIDE_RANGES is
\* accepted only if it was recorded under the hymn number of the current
\* request, and a range recorded under that same number is not blocked: it, or
\* a larger candidate, is returned.
C2_UsedRangeGuard ==
    last_search.called =>
        /\ last_search.source # "" =>
               ~ClaimedByOther(last_search.used_before, last_search.source,
                               last_search.content, last_search.hymn_num)
        /\ \A pf \in Files :
               (/\ FoundIn(pf) # <<>>
                /\ ClaimedBySame(last_search.used_before, pf, FoundIn(pf),
                                 last_search.hymn_num))
               => /\ last_search.source # ""
                  /\ Len(last_search.content) >= Len(FoundIn(pf))

\* Hymn 42 is requested a second time (Communion after Confession) and the
\* range claimed by the first request is selected again.
C2_Witness ==
    /\ last_search.called
    /\ pos = 3
    /\ song_list[1].hymn_num = "42" /\ song_list[1].label = "Confession"
    /\ song_list[2].hymn_num = "42" /\ song_list[2].label = "Communion"
    /\ last_search.source # ""
    /\ ClaimedBySame(last_search.used_before, last_search.source, last_search.content, "42")

\* C3: no physical slide of a source file is claimed for two different hymn
\* numbers within one generation: the slides cloned under different hymn
\* numbers from the same file are disjoint.
C3_NoSlideUnderTwoNumbers ==
    \A i, j \in DOMAIN prs :
        (/\ prs[i].kind = "content" /\ prs[j].kind = "content"
         /\ prs[i].file = prs[j].file /\ prs[i].idx = prs[j].idx)
        => prs[i].hymn = prs[j].hymn

\* C4: USED_SLIDE_RANGES is empty when a generation starts processing, and
\* throughout a generation it holds only ranges claimed by that generation
\* (each recorded range is one whose slides this generation cloned under the
\* recorded number), so no decision depends on an earlier generation.
C4_UsedRangesOfThisGenerationOnly ==
    pc # "idle" =>
        /\ (pos = 1 => USED_SLIDE_RANGES = EmptyMap)
        /\ \A k \in DOMAIN USED_SLIDE_RANGES :
               \E i \in DOMAIN prs :
                   /\ prs[i].kind = "content"
                   /\ prs[i].file = k[1] /\ prs[i].idx = k[2]
                   /\ prs[i].hymn = USED_SLIDE_RANGES[k]

\* A generation after the first one has accepted its first candidate.
C4_Witness ==
    /\ generation >= 2
    /\ pc = "processing"
    /\ pos = 2
    /\ last_search.called
    /\ last_search.source # ""
    /\ last_search.used_before = EmptyMap
    /\ Cardinality(DOMAIN USED_SLIDE_RANGES) = 1

\* The slides emitted for the n-th request of the plan.
SectionSlides(n) ==
    {i \in DOMAIN prs :
        /\ i >= section_start[n]
        /\ (n < Len(section_start) => i < section_start[n + 1])}

AbsentEverywhere(h) ==
    \A f \in Files : \A i \in DOMAIN Library[f] :
        Library[f][i].hdr # h /\ Library[f][i].paren # h

\* C5: a request for a hymn number that is absent from every source file
\* (and that is not resolved) produces a placeholder slide carrying the
\* literal text "(Song not found)".
C5_PlaceholderSaysNotFound ==
    \A n \in DOMAIN section_start :
        (/\ song_list[n].hymn_num # ""
         /\ AbsentEverywhere(song_list[n].hymn_num)
         /\ \A i \in SectionSlides(n) : prs[i].kind # "content")
        => \E i \in SectionSlides(n) : prs[i].name = SongNotFound

FirstSlideKinds == {"title", "hc_intro", "message"}

\* The label shown by the first slide of the section of a request.
SectionLabel(label) ==
    CASE label = "Message" -> "Message"
      [] label = "Communion" -> "Holy Communion"
      [] label = "Thanksgiving" -> "ThanksGiving Prayers"
      [] OTHER -> label

C6_SectionsInPlanOrder ==
    pc \in {"processing", "saved"} =>
        /\ Len(prs) >= 1 /\ prs[1].kind = "summary"
        /\ Len(section_start) = pos - 1
        /\ pos <= Len(song_list) + 1
        /\ \A n \in DOMAIN section_start :
               /\ section_start[n] > (IF n = 1 THEN 1 ELSE section_start[n - 1])
               /\ section_start[n] <= Len(prs)
               /\ prs[section_start[n]].kind \in FirstSlideKinds
               /\ prs[section_start[n]].label = SectionLabel(song_list[n].label)
               /\ prs[section_start[n]].hymn = song_list[n].hymn_num
        /\ pc = "saved" => (pos = Len(song_list) + 1 /\ output = prs)

\* Every step of a generation that has found its template either processes
\* the next request and stays in the loop, or saves after the last request.
C6_NoRequestStopsTheLoop ==
    pc = "processing" =>
        \/ pc' = "processing" /\ pos <= Len(song_list) /\ pos' = pos + 1
                              /\ Len(prs') > Len(prs)
        \/ pc' = "saved" /\ pos = Len(song_list) + 1 /\ output' = prs

\* C6: provided the template exists, every request of the plan gets its
\* section, in plan order and after the summary slide, whether or not it is
\* resolved (an unresolved request contributes its placeholder slide); no
\* outcome stops the loop before the last request, and the saved output holds
\* the sections of all the requests.
C6_EveryRequestEmittedAndSaved ==
    /\ []C6_SectionsInPlanOrder
    /\ [][C6_NoRequestStopsTheLoop]_vars

\* A plan whose first request is unresolved has been processed to the end and
\* saved with the placeholder section followed by the later sections.
C6_Witness ==
    /\ pc = "saved"
    /\ Len(song_list) = 3
    /\ song_list[1].hymn_num = "999"
    /\ \A i \in SectionSlides(1) : prs[i].kind # "content"
    /\ \E i \in SectionSlides(2) : prs[i].kind = "content"
    /\ output = prs

Kinds(deck) == [i \in DOMAIN deck |-> deck[i].kind]

IsPlanC7 ==
    /\ Len(song_list) = 3
    /\ song_list[1].hymn_num = "91" /\ song_list[1].label = "Opening"
    /\ song_list[2].label = "Message"
    /\ song_list[3].hymn_num = "313" /\ song_list[3].label = "Communion"

\* C7 as stated: the deck generated for the plan 91|Opening, Message,
\* 313|Communion has 11 slides in total.
C7_ElevenSlides ==
    (pc = "saved" /\ IsPlanC7) => Len(output) = 11

\* C7 amended: the deck consists, in order, of a summary slide, an Opening
\* title slide, 5 cloned content slides, a Message title slide, a Communion
\* intro slide and 3 cloned content slides: 12 slides in total.
C7_TwelveSlides ==
    (pc = "saved" /\ IsPlanC7) =>
        /\ Kinds(output) = <<"summary", "title", "content", "content", "content",
                             "content", "content", "message", "hc_intro",
                             "content", "content", "content">>
        /\ output[2].label = "Opening" /\ output[2].hymn = "91"
        /\ \A i \in 3..7 : output[i].hymn = "91" /\ output[i].file = "A.pptx"
        /\ output[9].hymn = "313"
        /\ \A i \in 10..12 : output[i].hymn = "313" /\ output[i].file = "A.pptx"
        /\ Len(output) = 12

\* The plan has been generated against the library in which hymn 91 yields 5
\* content slides and hymn 313 yields 3, and the deck is saved.
C7_Witness ==
    /\ pc = "saved"
    /\ IsPlanC7
    /\ Len(find_song_slide_indices_in_pptx("A.pptx", "91", "").content) = 5
    /\ Len(find_song_slide_indices_in_pptx("A.pptx", "313", "").content) = 3
    /\ Len(output) = 12

\* two searches of one generation, one after the other, for requests without
\* a hymn number and with different title hints, both with a result
two_title_only_searches ==
    /\ last_search.called
    /\ last_search'.called
    /\ generation' = generation
    /\ pos' = pos + 1
    /\ last_search.hymn_num = ""
    /\ last_search'.hymn_num = ""
    /\ last_search.song_name # last_search'.song_name
    /\ last_search.source # ""
    /\ last_search'.source # ""

\* C29: within one generation, two requests without a hymn number and with
\* different title hints are never both given the same (file, first index,
\* last index) range; stated for two requests processed one after the other.
C29_TitleOnlyRequestsGetDifferentRanges ==
    [][two_title_only_searches
       => slide_key(last_search.source, last_search.content)
          # slide_key(last_search'.source, last_search'.content)]_vars

(***************************************************************************)
(* PART II - the hymn-number extractor                                     *)
(*                                                                         *)
(* A text is a sequence of one-character strings.  A regular expression is *)
(* a tree of records; Match gives, for a start position, the positions     *)
(* after each way the expression can match there, in the order in which    *)
(* Python's backtracking matcher tries them.                               *)
(***************************************************************************)
\* The three characters that the source file holds where a dash was meant
\* (U+201A, U+00C4, U+00EC), and the other case of the two cased ones.
Mojibake == {"U+201A", "U+00C4", "U+00EC"}
MojibakeOtherCase == {"U+00E4", "U+00CC"}

\* The characters that match c under re.IGNORECASE.
CaseFold(c) ==
    IF \E i \in 1..26 : LowerCase[i] = c
    THEN {c, UpperCase[CHOOSE i \in 1..26 : LowerCase[i] = c]}
    ELSE IF \E i \in 1..26 : UpperCase[i] = c
    THEN {c, LowerCase[CHOOSE i \in 1..26 : UpperCase[i] = c]}
    ELSE {c}

Inf == -1

CharSet(cs) == [op |-> "set", cs |-> cs]
NotCharSet(cs) == [op |-> "nset", cs |-> cs]
Cat(rs) == [op |-> "cat", rs |-> rs]
Alt(rs) == [op |-> "alt", rs |-> rs]
Rep(r, lo, hi, greedy) == [op |-> "rep", r |-> r, lo |-> lo, hi |-> hi, greedy |-> greedy]
WordBoundary == [op |-> "wb"]
EndOfText == [op |-> "eol"]
BeginOfText == [op |-> "bol"]

Opt(r) == Rep(r, 0, 1, TRUE)
Star(r) == Rep(r, 0, Inf, TRUE)
Plus(r) == Rep(r, 1, Inf, TRUE)
Lit(cs) == Cat([i \in 1..Len(cs) |-> CharSet({cs[i]})])
LitI(cs) == Cat([i \in 1..Len(cs) |-> CharSet(CaseFold(cs[i]))])

\* \s, \d, "." and the two dash classes of the patterns
WS == CharSet(Whitespace)
Digit == CharSet(Digits)
Dot == NotCharSet({"\n"})
ColonDashClass == CharSet({":", "-"} \cup Mojibake \cup MojibakeOtherCase)
DashClass == CharSet({"-"} \cup Mojibake \cup MojibakeOtherCase)
Digits1to4 == Rep(Digit, 1, 4, TRUE)

IsWordChar(t, i) == i >= 1 /\ i <= Len(t) /\ t[i] \in WordChars
AtWordBoundary(t, i) == IsWordChar(t, i - 1) # IsWordChar(t, i)
\* "$" without re.MULTILINE: the end, or just before a final newline
AtEnd(t, i) == i = Len(t) + 1 \/ (i = Len(t) /\ t[i] = "\n")

RECURSIVE Match(_, _, _), MatchEach(_, _, _, _), MatchCat(_, _, _, _),
          MatchAlt(_, _, _, _), MatchRep(_, _, _)
\* the matches of r from each of the positions starts[k..], in order
MatchEach(r, t, starts, k) ==
    IF k > Len(starts) THEN <<>>
    ELSE Match(r, t, starts[k]) \o MatchEach(r, t, starts, k + 1)

MatchCat(rs, k, t, starts) ==
    IF k > Len(rs) \/ starts = <<>> THEN starts
    ELSE MatchCat(rs, k + 1, t, MatchEach(rs[k], t, starts, 1))

MatchAlt(rs, k, t, i) ==
    IF k > Len(rs) THEN <<>>
    ELSE Match(rs[k], t, i) \o MatchAlt(rs, k + 1, t, i)

\* one more repetition, then the rest; a greedy repetition tries that first
MatchRep(r, t, i) ==
    LET rest == [r EXCEPT !.lo = IF r.lo > 0 THEN r.lo - 1 ELSE 0,
                          !.hi = IF r.hi = Inf THEN Inf ELSE r.hi - 1]
        more == IF r.hi # 0 THEN MatchEach(rest, t, Match(r.r, t, i), 1) ELSE <<>>
        stop == IF r.lo = 0 THEN <<i>> ELSE <<>>
    IN  IF r.greedy THEN more \o stop ELSE stop \o more

Match(r, t, i) ==
    CASE r.op = "set"  -> IF i <= Len(t) /\ t[i] \in r.cs THEN <<i + 1>> ELSE <<>>
      [] r.op = "nset" -> IF i <= Len(t) /\ t[i] \notin r.cs THEN <<i + 1>> ELSE <<>>
      [] r.op = "wb"   -> IF AtWordBoundary(t, i) THEN <<i>> ELSE <<>>
      [] r.op = "eol"  -> IF AtEnd(t, i) THEN <<i>> ELSE <<>>
      [] r.op = "bol"  -> IF i = 1 THEN <<i>> ELSE <<>>
      [] r.op = "cat"  -> MatchCat(r.rs, 1, t, <<i>>)
      [] r.op = "alt"  -> MatchAlt(r.rs, 1, t, i)
      [] r.op = "rep"  -> MatchRep(r, t, i)

\* A pattern with one capturing group: what precedes the group, the group,
\* and what follows it.
Pattern(pre, cap, post) == [pre |-> pre, cap |-> cap, post |-> post]

\* The group of the first way, in matching order, in which the pattern
\* matches at position i; None if there is none.
RECURSIVE GroupFrom(_, _, _, _, _, _)
GroupFrom(p, t, pres, j, caps, k) ==
    IF j > Len(pres) THEN None
    ELSE IF k > Len(caps) THEN
            IF j + 1 > Len(pres) THEN None
            ELSE GroupFrom(p, t, pres, j + 1, Match(p.cap, t, pres[j + 1]), 1)
    ELSE IF Match(p.post, t, caps[k]) # <<>> THEN SubSeq(t, pres[j], caps[k] - 1)
    ELSE GroupFrom(p, t, pres, j, caps, k + 1)

match_group(p, t, i) ==
    LET pres == Match(p.pre, t, i)
    IN  IF pres = <<>> THEN None
        ELSE GroupFrom(p, t, pres, 1, Match(p.cap, t, pres[1]), 1)

\* re.search(pattern, text).group(1): the leftmost match
RECURSIVE SearchFrom(_, _, _)
SearchFrom(p, t, i) ==
    IF i > Len(t) + 1 THEN None
    ELSE LET g == match_group(p, t, i)
         IN  IF g # None THEN g ELSE SearchFrom(p, t, i + 1)

re_search_group(p, t) == SearchFrom(p, t, 1)

\* re.search(r, text) is not None
re_search(r, t) == \E i \in 1..(Len(t) + 1) : Match(r, t, i) # <<>>

\* int(num)
RECURSIVE int(_)
int(num) ==
    IF num = <<>> THEN 0
    ELSE 10 * int(SubSeq(num, 1, Len(num) - 1))
         + (CHOOSE d \in 0..9 : DigitSeq[d + 1] = num[Len(num)])

\* The words of the patterns, matched under re.IGNORECASE.
Hymn == LitI(<<"H", "y", "m", "n">>)
Song == LitI(<<"S", "o", "n", "g">>)
No == LitI(<<"N", "o">>)
Holy == LitI(<<"H", "o", "l", "y">>)
Communion == LitI(<<"C", "o", "m", "m", "u", "n", "i", "o", "n">>)
Offertory == LitI(<<"O", "f", "f", "e", "r", "t", "o", "r", "y">>)
Confession == LitI(<<"C", "o", "n", "f", "e", "s", "s", "i", "o", "n">>)
OptDot == Opt(CharSet({"."}))
OpenBracket == CharSet({"(", "["})
CloseBracket == CharSet({")", "]"})
Nothing == Cat(<<>>)
SpaceOrEnd == Alt(<<WS, EndOfText>>)

\* The patterns of extract_hymn_number, in the order of the list.
patterns == <<
    Pattern(Cat(<<Hymn, Star(WS), No, OptDot, Opt(ColonDashClass), Star(WS), Opt(OpenBracket)>>),
            Digits1to4, Opt(CloseBracket)),
    Pattern(Cat(<<Hymn, Star(WS), DashClass, Star(WS)>>), Digits1to4, WordBoundary),
    Pattern(Cat(<<Song, CharSet({"."}), Star(WS), No, OptDot, Star(WS), ColonDashClass, Star(WS)>>),
            Digits1to4, Nothing),
    Pattern(Cat(<<Song, Star(WS), No, OptDot, Star(WS), DashClass, Star(WS)>>),
            Digits1to4, Nothing),
    Pattern(Cat(<<Song, Star(WS), No, OptDot, Star(WS), Opt(ColonDashClass), Star(WS)>>),
            Digits1to4, Nothing),
    Pattern(Cat(<<Song, Plus(WS), No, OptDot, Star(WS), Opt(ColonDashClass), Star(WS)>>),
            Digits1to4, Nothing),
    Pattern(Cat(<<Alt(<<Offertory, Confession>>), Star(WS), DashClass, Star(WS)>>),
            Digits1to4, WordBoundary),
    Pattern(Cat(<<Opt(Cat(<<Holy, Plus(WS)>>)), Communion, Star(WS), DashClass, Star(WS),
                  Opt(Cat(<<Alt(<<Song, Hymn>>), Plus(WS), No, OptDot, Star(WS)>>))>>),
            Digits1to4, SpaceOrEnd),
    Pattern(Cat(<<Holy, Plus(WS), Communion, Star(WS), DashClass, Star(WS),
                  Star(NotCharSet({"("})), OpenBracket>>),
            Digits1to4, CloseBracket),
    Pattern(Cat(<<Alt(<<Offertory, Confession>>), Star(WS), DashClass, Star(WS),
                  Opt(Cat(<<Song, Plus(WS), No, OptDot, Star(WS)>>))>>),
            Digits1to4, SpaceOrEnd),
    Pattern(OpenBracket, Digits1to4, CloseBracket) >>

\* Only the last entry of the list is a tuple (True, pattern).
skip_small_Never(k) == FALSE
skip_small(k) == k = Len(patterns)

\* The "X of Y ... num" test, which is compiled without re.IGNORECASE.
footer_regex(num) ==
    Cat(<<WordBoundary, Plus(Digit), Plus(WS), Lit(<<"o", "f">>), Plus(WS), Plus(Digit),
          Rep(Dot, 0, Inf, FALSE), WordBoundary, Lit(num), WordBoundary>>)

in_slide_number(t, num) == re_search(footer_regex(num), t)

RECURSIVE TryPatterns(_, _)
TryPatterns(t, k) ==
    IF k > Len(patterns) THEN None
    ELSE LET num == re_search_group(patterns[k], t)
         IN  IF num = None THEN TryPatterns(t, k + 1)
             ELSE IF skip_small(k) /\ int(num) < 5 THEN TryPatterns(t, k + 1)
             ELSE IF in_slide_number(t, num) THEN TryPatterns(t, k + 1)
             ELSE num

extract_hymn_number(t) == TryPatterns(t, 1)

(***************************************************************************)
(* Slide texts are put together from fragments joined by single spaces;    *)
(* the line break is a fragment of its own.                                *)
(***************************************************************************)
Fragments == {
    <<"H", "y", "m", "n", " ", "N", "o">>,
    <<"C", "o", "m", "m", "u", "n", "i", "o", "n", " ", "-">>,
    <<"A", "m", "a", "z", "i", "n", "g">>,
    <<"\n">>,
    <<"1", "7", "1">>,
    <<"3">>,
    <<"(", "3", ")">>,
    <<"(", "4", "2", ")">>,
    <<"2", " ", "o", "f", " ", "4">>,
    <<"4", "2", " ", "o", "f", " ", "1", "7", "1">> }

XInit ==
    /\ GenInit
    /\ SOff
    /\ FOff
    /\ POff
    /\ GuiOff
    /\ ScanOff
    /\ TOff
    /\ text = <<>>
    /\ nfrag = 0
    /\ hymn_number = None
    /\ xpc = "building"

AppendFragment(f) ==
    /\ xpc = "building"
    /\ nfrag < MaxFrags
    /\ text' = (IF text = <<>> THEN f ELSE text \o <<" ">> \o f)
    /\ nfrag' = nfrag + 1
    /\ UNCHANGED <<hymn_number, xpc>>
    /\ UNCHANGED x_frame

Extract ==
    /\ xpc = "building"
    /\ hymn_number' = extract_hymn_number(text)
    /\ xpc' = "done"
    /\ UNCHANGED <<text, nfrag>>
    /\ UNCHANGED x_frame

XNext ==
    \/ \E f \in Fragments : AppendFragment(f)
    \/ Extract

SpecExtract == XInit /\ [][XNext]_vars

(***************************************************************************)
(* Properties of the extractor                                             *)
(***************************************************************************)
\* the text holds a pagination footer "<num> of <Y>"
HasFooterWithX(t, num) ==
    re_search(Cat(<<WordBoundary, Lit(num), Plus(WS), Lit(<<"o", "f">>), Plus(WS), Digit>>), t)

\* C8: when the text holds an "X of Y" footer, the number returned by
\* extract_hymn_number is never that footer's X.
C8_FooterNumberNeverReturned ==
    (xpc = "done" /\ hymn_number # None) => ~HasFooterWithX(text, hymn_number)

\* the number of the leftmost "Hymn No <n>" of the text, None without one
ExplicitHymnNo(t) == re_search_group(patterns[1], t)

\* C9: a text that holds "Hymn No <n>" yields n, whatever else it holds.
C9_ExplicitHymnNoAlwaysWins ==
    (xpc = "done" /\ ExplicitHymnNo(text) # None) => hymn_number = ExplicitHymnNo(text)

\* the maximal runs of digits of the text, by their first position
RunStarts(t) == {i \in 1..Len(t) : t[i] \in Digits /\ (i = 1 \/ t[i - 1] \notin Digits)}
RunEnd(t, i) == CHOOSE j \in i..Len(t) :
                    /\ \A m \in i..j : t[m] \in Digits
                    /\ (j = Len(t) \/ t[j + 1] \notin Digits)
TheRunStart(t) == CHOOSE i \in RunStarts(t) : TRUE
TheNumber(t) == SubSeq(t, TheRunStart(t), RunEnd(t, TheRunStart(t)))
OneNumber(t) == Cardinality(RunStarts(t)) = 1 /\ Len(TheNumber(t)) <= 4
Bracketed(t) ==
    /\ TheRunStart(t) > 1
    /\ t[TheRunStart(t) - 1] \in {"(", "["}
    /\ RunEnd(t, TheRunStart(t)) < Len(t)
    /\ t[RunEnd(t, TheRunStart(t)) + 1] \in {")", "]"}
\* one of the patterns before the generic one matches
ExplicitPatternMatches(t) ==
    \E k \in 1..(Len(patterns) - 1) : re_search_group(patterns[k], t) # None
HymnNoBeforeNumber(t) ==
    /\ TheRunStart(t) > 8
    /\ SubSeq(t, TheRunStart(t) - 8, TheRunStart(t) - 1) = <<"H", "y", "m", "n", " ", "N", "o", " ">>

\* C10: a text whose one number is a parenthetical "(n)" that no explicit
\* pattern takes yields nothing when n < 5 and n when n >= 5; a number that
\* follows "Hymn No" is returned even when it is below 5.
C10_SmallNumberRejectedForGenericOnly ==
    (xpc = "done" /\ OneNumber(text)) =>
        /\ (Bracketed(text) /\ ~ExplicitPatternMatches(text)) =>
               hymn_number = (IF int(TheNumber(text)) < 5 THEN None ELSE TheNumber(text))
        /\ HymnNoBeforeNumber(text) => hymn_number = TheNumber(text)

C10_Witness ==
    /\ xpc = "done"
    /\ nfrag > 1
    /\ OneNumber(text)
    /\ Bracketed(text)
    /\ ~ExplicitPatternMatches(text)
    /\ int(TheNumber(text)) < 5
    /\ hymn_number = None

(***************************************************************************)
(* PART III - the run segmenter                                            *)
(*                                                                         *)
(* English/extract_english_hymns.py analyze_pptx_file.  A slide is the     *)
(* record of what the helper functions and the inline tests of the loop    *)
(* yield for it; titles are character sequences, so that the clean-up and  *)
(* the normalisation of the deduplication work on the characters.          *)
(***************************************************************************)
MaxSlides == 3

\* short:          len(all_text.strip()) < 5
\* metadata:       is_metadata
\* hymn_num:       extract_hymn_number_from_slide(slide), "" for None
\* non_hymn:       is_non_hymn
\* content_title:  extract_title_from_content(slide)
\* header_title:   the group of the "Hymn <n> - Title" search, cut to 30 characters
\* section_title:  title of is_section_title_slide(slide), <<>> when it is not one
\* section_keyword: has_section_keyword
\* paren_num:      the group of the "(n)" / "[n]" search over the shapes
\* heading_title:  extract_title_from_slide_heading(slide)
SegSlide(short, metadata, hymn_num, non_hymn, content_title, header_title, section_title, section_keyword, paren_num, heading_title) ==
    [short |-> short, metadata |-> metadata, hymn_num |-> hymn_num,
     non_hymn |-> non_hymn, content_title |-> content_title,
     header_title |-> header_title, section_title |-> section_title,
     section_keyword |-> section_keyword, paren_num |-> paren_num,
     heading_title |-> heading_title]

(***************************************************************************)
(* String operations on character sequences                                *)
(***************************************************************************)
\* re.sub(r, repl, t) for expressions that match no empty string: at each
\* position the first way of matching is replaced, the scan goes on behind it.
RECURSIVE re_sub_from(_, _, _, _)
re_sub_step(r, repl, t, i, ends) ==
    IF ends # <<>> /\ ends[1] > i
    THEN repl \o re_sub_from(r, repl, t, ends[1])
    ELSE <<t[i]>> \o re_sub_from(r, repl, t, i + 1)
re_sub_from(r, repl, t, i) ==
    IF i > Len(t) THEN <<>> ELSE re_sub_step(r, repl, t, i, Match(r, t, i))
re_sub(r, repl, t) == re_sub_from(r, repl, t, 1)

AmazingGrace == <<"A", "m", "a", "z", "i", "n", "g", " ", "g", "r", "a", "c", "e", " ", "h", "o", "w", " ", "s", "w", "e", "e", "t", " ", "t", "h", "e", " ", "s", "o", "u", "n", "d">>
ThousandTongues == <<"O", " ", "f", "o", "r", " ", "a", " ", "T", "h", "o", "u", "s", "a", "n", "d", " ", "T", "o", "n", "g", "u", "e", "s">>
ThousandTonguesLower == <<"O", " ", "f", "o", "r", " ", "a", " ", "t", "h", "o", "u", "s", "a", "n", "d", " ", "t", "o", "n", "g", "u", "e", "s">>
ThousandTonguesDecorated == <<"U+2013", " ", "O", " ", "f", "o", "r", " ", "a", " ", "t", "h", "o", "u", "s", "a", "n", "d", " ", "t", "o", "n", "g", "u", "e", "s", " ", "U+2013">>
ThousandTonguesLeadDash == <<"-", " ", "O", " ", "f", "o", "r", " ", "a", " ", "t", "h", "o", "u", "s", "a", "n", "d", " ", "t", "o", "n", "g", "u", "e", "s">>
ThousandTonguesHeading == <<"O", "p", "e", "n", "i", "n", "g", " ", "H", "y", "m", "n", " ", "O", " ", "f", "o", "r", " ", "a", " ", "T", "h", "o", "u", "s", "a", "n", "d", " ", "T", "o", "n", "g", "u", "e", "s">>
ThousandTonguesDecoratedHeading == <<"C", "l", "o", "s", "i", "n", "g", " ", "H", "y", "m", "n", " ", "U+2013", " ", "O", " ", "f", "o", "r", " ", "a", " ", "t", "h", "o", "u", "s", "a", "n", "d", " ", "t", "o", "n", "g", "u", "e", "s", " ", "U+2013">>
HymnIndicator == <<"H", "y", "m", "n", ".", "n", "o", ":", " ", "1", "2">>
SongListToday == <<"S", "o", "n", "g", " ", "l", "i", "s", "t", " ", "f", "o", "r", " ", "t", "o", "d", "a", "y">>
RockOfAges == <<"R", "o", "c", "k", " ", "o", "f", " ", "A", "g", "e", "s">>
RockOfAgesHeading == <<"H", "y", "m", "n", " ", "N", "o", " ", "1", "7", "1", " ", "-", " ", "R", "o", "c", "k", " ", "o", "f", " ", "A", "g", "e", "s">>
LeaderResponse == <<"L", "e", "a", "d", "e", "r", " ", "a", "n", "d", " ", "R", "e", "s", "p", "o", "n", "s", "e">>

ClosingWord == <<"C", "l", "o", "s", "i", "n", "g">>
VerseMarked == AmazingGrace \o <<" ", "(", "3", ")">>

\* the strings of the numbers that are read as sequences of digits
NumberStrings == [n \in {"3", "12", "42", "45", "171"} |->
    CASE n = "3" -> <<"3">> [] n = "12" -> <<"1", "2">> [] n = "42" -> <<"4", "2">>
      [] n = "45" -> <<"4", "5">> [] n = "171" -> <<"1", "7", "1">>]
number_string(num) ==
    IF num = None THEN "" ELSE CHOOSE n \in DOMAIN NumberStrings : NumberStrings[n] = num

\* num_match of the awaiting-number search in the text box t
BracketedNumber == Pattern(OpenBracket, Rep(Digit, 1, 3, TRUE), CloseBracket)
bracketed_number(t) == re_search_group(BracketedNumber, t)

\* all_text of a slide with one text box: " " + shape.text_frame.text.strip()
all_text_of(t) == <<" ">> \o strip(t)

\* has_section_keyword: re.search of "^" + kw, ignoring case, for some keyword
section_keywords ==
    <<<<"O", "p", "e", "n", "i", "n", "g">>,
      <<"C", "l", "o", "s", "i", "n", "g">>,
      <<"O", "f", "f", "e", "r", "t", "o", "r", "y">>,
      <<"C", "o", "m", "m", "u", "n", "i", "o", "n">>,
      <<"C", "o", "n", "f", "e", "s", "s", "i", "o", "n">>,
      <<"T", "h", "a", "n", "k", "s", "g", "i", "v", "i", "n", "g">>,
      <<"M", "e", "s", "s", "a", "g", "e">>,
      <<"P", "r", "a", "y", "e", "r">>>>
has_section_keyword(all_text) ==
    \E i \in 1..Len(section_keywords) :
        re_search(Cat(<<BeginOfText, LitI(section_keywords[i])>>), all_text)

\* The slides of the model, by the text of their one text box:
\*   Blank             ""
\*   NumberedLyrics    "Hymn No 171" / "Amazing grace how sweet the sound"
\*   NumberedOnly      "Hymn No 171"
\*   Lyrics            "Amazing grace how sweet the sound"
\*   SectionPlain      "Opening Hymn O for a Thousand Tongues"
\*   SectionDecorated  "Closing Hymn <en dash> O for a thousand tongues <en dash>"
\*   SectionLeadDash   "Closing Hymn - O for a thousand tongues"
\*   SectionIndicator  "Opening Hymn" / "Hymn.no: 12"
\*   Response          "Leader and Response"
\*   Numbered45        "Hymn No 45" / "O for a thousand tongues"
\*   NumberedHeader    "Hymn No 171 - Rock of Ages"
\*   SongList          "Song list for today"
\*   Keyword           "Closing"
\*   VerseMarked       "Amazing grace how sweet the sound (3)"
SlideKinds ==
    [k \in {"Blank", "NumberedLyrics", "NumberedOnly", "Lyrics", "SectionPlain",
            "SectionDecorated", "SectionLeadDash", "SectionIndicator", "Response",
            "Numbered45", "NumberedHeader", "SongList", "Keyword", "VerseMarked"} |->
     CASE k = "Blank" ->
            SegSlide(TRUE, FALSE, "", FALSE, <<>>, <<>>, <<>>, FALSE, "", <<>>)
       [] k = "NumberedLyrics" ->
            SegSlide(FALSE, FALSE, "171", FALSE, AmazingGrace, <<>>, <<>>, FALSE, "",
                     AmazingGrace)
       [] k = "NumberedOnly" ->
            SegSlide(FALSE, FALSE, "171", FALSE, <<>>, <<>>, <<>>, FALSE, "", <<>>)
       [] k = "Lyrics" ->
            SegSlide(FALSE, FALSE, "", FALSE, AmazingGrace, <<>>, <<>>, FALSE, "",
                     AmazingGrace)
       [] k = "SectionPlain" ->
            SegSlide(FALSE, FALSE, "", FALSE, <<>>, <<>>, ThousandTongues, FALSE, "",
                     ThousandTonguesHeading)
       [] k = "SectionDecorated" ->
            SegSlide(FALSE, FALSE, "", FALSE, <<>>, <<>>, ThousandTonguesDecorated, FALSE,
                     "", ThousandTonguesDecoratedHeading)
       [] k = "SectionLeadDash" ->
            SegSlide(FALSE, FALSE, "", FALSE, <<>>, <<>>, ThousandTonguesLeadDash, FALSE,
                     "", ThousandTonguesLower)
       [] k = "SectionIndicator" ->
            SegSlide(FALSE, FALSE, "", FALSE, <<>>, <<>>, HymnIndicator, FALSE, "", <<>>)
       [] k = "Response" ->
            SegSlide(FALSE, FALSE, "", TRUE, LeaderResponse, <<>>, <<>>, FALSE, "",
                     LeaderResponse)
       [] k = "Numbered45" ->
            SegSlide(FALSE, FALSE, "45", FALSE, ThousandTonguesLower, <<>>, <<>>, FALSE, "",
                     ThousandTonguesLower)
       [] k = "NumberedHeader" ->
            SegSlide(FALSE, FALSE, "171", FALSE, <<>>, RockOfAges, <<>>, FALSE, "",
                     RockOfAgesHeading)
       [] k = "SongList" ->
            SegSlide(FALSE, TRUE, "", TRUE, SongListToday, <<>>, <<>>, FALSE, "",
                     SongListToday)
       [] k = "Keyword" ->
            SegSlide(FALSE, FALSE, "", FALSE, <<>>, <<>>, <<>>,
                     has_section_keyword(all_text_of(ClosingWord)), "", <<>>)
       [] k = "VerseMarked" ->
            SegSlide(FALSE, FALSE, number_string(extract_hymn_number(strip(VerseMarked))),
                     FALSE, VerseMarked, <<>>, <<>>,
                     has_section_keyword(all_text_of(VerseMarked)),
                     number_string(bracketed_number(VerseMarked)), VerseMarked)]

SlideNames == DOMAIN SlideKinds

(***************************************************************************)
(* The title clean-up pass and the normalisation of the deduplication      *)
(***************************************************************************)
Quotes == {"\"", "U+201C", "U+201D"}
Apostrophe == "'"
\* the characters the source holds where an en dash and an em dash were meant
MojibakeEmDash == {"U+201A", "U+00C4", "U+00EE"}

VersionSuffix ==
    Cat(<<Plus(WS), CharSet({"v", "V"}), Plus(Digit), Star(WS), EndOfText>>)
DashRun == Plus(CharSet({"-"} \cup Mojibake \cup MojibakeEmDash))
DashThenQuote == Cat(<<CharSet({"-"} \cup Mojibake), Star(WS), CharSet(Quotes)>>)
LeadingDecoration ==
    Cat(<<BeginOfText,
          Plus(CharSet({"-"} \cup Mojibake \cup Whitespace \cup Quotes \cup {Apostrophe}))>>)
TrailingQuotes == Cat(<<Plus(CharSet(Quotes \cup {Apostrophe})), EndOfText>>)

\* the normalized_title of the deduplication loop for hymn_title
normalize_title(hymn_title) ==
    lower(strip(
        re_sub(Plus(WS), <<" ">>,
        re_sub(TrailingQuotes, <<>>,
        re_sub(LeadingDecoration, <<>>,
        re_sub(DashThenQuote, <<"-", " ">>,
        re_sub(DashRun, <<"-">>,
        re_sub(VersionSuffix, <<>>, hymn_title))))))))

HymnIndicators == { <<"s", "o", "n", "g", ".", "n", "o", ":">>, <<"s", "o", "n", "g", " ", "n", "o", ":">>, <<"h", "y", "m", "n", ".", "n", "o", ":">>, <<"h", "y", "m", "n", " ", "n", "o", ":">> }
has_indicator(title) == \E x \in HymnIndicators : contains(lower(title), x)

\* (?:song|hymn)\.?\s*no\.?[\:\-]\s*\d+[,\s]*(.+)
IndicatorThenTitle ==
    Pattern(Cat(<<Alt(<<Song, Hymn>>), OptDot, Star(WS), No, OptDot, CharSet({":", "-"}),
                  Star(WS), Plus(Digit), Star(CharSet({","} \cup Whitespace))>>),
            Plus(Dot), Nothing)
\* \s*\(v\d+\)\s*
VersionMarker ==
    Cat(<<Star(WS), CharSet({"("}), CharSet({"v"}), Plus(Digit), CharSet({")"}), Star(WS)>>)

real_title_or_nothing(real_title) ==
    IF real_title # <<>> /\ Len(real_title) > 3 THEN real_title ELSE <<>>

title_after_indicator(group) ==
    IF group = None THEN <<>>
    ELSE real_title_or_nothing(re_sub(VersionMarker, <<>>, strip(group)))

\* the title the clean-up pass leaves in a run
clean_title(title) ==
    IF strip(title) # <<>> /\ has_indicator(strip(title))
    THEN title_after_indicator(re_search_group(IndicatorThenTitle, strip(title)))
    ELSE title

(***************************************************************************)
(* The runs and one pass of the loop over the slides                       *)
(***************************************************************************)
\* the dictionary of one run; needs_hymn_number is FALSE where the key is absent
Run(hymn_num, title, title_slide, content_slides, needs_hymn_number) ==
    [hymn_number |-> hymn_num, title |-> title, title_slide |-> title_slide,
     content_slides |-> content_slides, total_slides |-> 1,
     slides_to_check_for_title |-> <<>>, needs_hymn_number |-> needs_hymn_number]

\* current_hymn is <<>> for None and <<run>> for an open run
has_content(cur) == cur # <<>> /\ Len(cur[1].content_slides) > 0

\* "if current_hymn and len(current_hymn['content_slides']) > 0: hymns.append(current_hymn)"
append_open_run_Always(hs, cur) == IF cur # <<>> THEN Append(hs, cur[1]) ELSE hs
append_open_run(hs, cur) == IF has_content(cur) THEN Append(hs, cur[1]) ELSE hs

\* the skip branches: the open run is given up only inside the same "if"
after_skip(cur) == IF has_content(cur) THEN <<>> ELSE cur

title_or(a, b) == IF a # <<>> THEN a ELSE b

\* a slide with the number of the open run
same_number(run, s, idx) ==
    [run EXCEPT !.content_slides = Append(@, idx),
                !.total_slides = @ + 1,
                !.title = title_or(@, s.content_title)]

\* a slide that starts a run under its own number
numbered_run(s, idx, title) ==
    Run(s.hymn_num, title, idx,
        IF title # <<>> \/ s.content_title # <<>> THEN <<idx>> ELSE <<>>, FALSE)

\* a section title slide starts a run without a number
section_run(s, idx) == Run("", s.section_title, idx, <<idx>>, TRUE)

fill_number(run, s) ==
    IF run.needs_hymn_number /\ run.hymn_number = "" /\ s.paren_num # ""
    THEN [run EXCEPT !.hymn_number = s.paren_num, !.needs_hymn_number = FALSE]
    ELSE run

note_title_slide(run, idx) ==
    IF run.title = <<>>
    THEN [run EXCEPT !.slides_to_check_for_title = Append(@, idx - 1)]
    ELSE run

\* a slide that continues the open run
continuation(run, s, idx) ==
    note_title_slide(
        fill_number([run EXCEPT !.content_slides = Append(@, idx),
                                !.total_slides = @ + 1], s),
        idx)

is_skipped(s) == s.short \/ s.metadata \/ (s.hymn_num = "" /\ s.non_hymn)
is_same_number(cur, s) == cur # <<>> /\ cur[1].hymn_number = s.hymn_num

\* hymns after the slide s at position idx
hymns_after_Always(hs, cur, s, idx) == append_open_run(hs, cur)
hymns_after(hs, cur, s, idx) ==
    IF is_skipped(s) THEN append_open_run(hs, cur)
    ELSE IF s.hymn_num # ""
    THEN (IF is_same_number(cur, s) THEN hs ELSE append_open_run(hs, cur))
    ELSE IF s.section_title # <<>> THEN append_open_run(hs, cur)
    ELSE IF cur # <<>> /\ s.section_keyword THEN append_open_run(hs, cur)
    ELSE hs

\* current_hymn after the slide s at position idx
current_after(cur, s, idx) ==
    IF is_skipped(s) THEN after_skip(cur)
    ELSE IF s.hymn_num # ""
    THEN (IF is_same_number(cur, s)
          THEN <<same_number(cur[1], s, idx)>>
          ELSE <<numbered_run(s, idx, title_or(s.content_title, s.header_title))>>)
    ELSE IF s.section_title # <<>> THEN <<section_run(s, idx)>>
    ELSE IF cur = <<>> THEN <<>>
    ELSE IF s.section_keyword THEN <<>>
    ELSE <<continuation(cur[1], s, idx)>>

(***************************************************************************)
(* The passes over the collected runs                                      *)
(***************************************************************************)
\* the first heading title among the slides noted for the run
RECURSIVE first_heading(_, _)
first_heading(slides, to_check) ==
    IF to_check = <<>> THEN <<>>
    ELSE IF SlideKinds[slides[to_check[1] + 1]].heading_title # <<>>
    THEN SlideKinds[slides[to_check[1] + 1]].heading_title
    ELSE first_heading(slides, Tail(to_check))

backfill_title(slides, hymn) ==
    IF hymn.title = <<>> /\ hymn.slides_to_check_for_title # <<>>
    THEN [hymn EXCEPT !.title = first_heading(slides, hymn.slides_to_check_for_title)]
    ELSE hymn


\* every title a run can carry: the titles the helper functions find on the slides,
\* as they are and as the clean-up pass leaves them
SlideTitles ==
    UNION {{SlideKinds[k].content_title, SlideKinds[k].header_title,
            SlideKinds[k].section_title, SlideKinds[k].heading_title} : k \in SlideNames}
clean_titles == [title \in SlideTitles |-> clean_title(title)]
RunTitles == SlideTitles \cup {clean_titles[title] : title \in SlideTitles}
normalized_titles == [title \in RunTitles |-> normalize_title(strip(title))]

\* normalized_title is computed only "if hymn_title": <<>> without a title,
\* <<normalized_title>> with one
normalized(hymn) ==
    IF strip(hymn.title) # <<>> THEN <<normalized_titles[hymn.title]>> ELSE <<>>

\* None is <<>>
key_of(hymn_num, norm) ==
    IF hymn_num # "" THEN <<"num", hymn_num>>
    ELSE IF norm # <<>> THEN <<"title", norm[1]>>
    ELSE None
dedup_key(hymn) == key_of(hymn.hymn_number, normalized(hymn))

seen_before(key, norm, seen_hymns, seen_normalized_titles) ==
    \/ key # None /\ key \in seen_hymns
    \/ norm # <<>> /\ norm[1] \in seen_normalized_titles

RECURSIVE deduplicate_from(_, _, _)
keep_or_skip(hs, key, norm, seen_hymns, seen_normalized_titles) ==
    IF seen_before(key, norm, seen_hymns, seen_normalized_titles)
    THEN deduplicate_from(Tail(hs), seen_hymns, seen_normalized_titles)
    ELSE <<hs[1]>> \o
         deduplicate_from(Tail(hs),
             IF key # None THEN seen_hymns \cup {key} ELSE seen_hymns,
             IF norm # <<>> THEN seen_normalized_titles \cup {norm[1]}
             ELSE seen_normalized_titles)
with_title(hs, norm, seen_hymns, seen_normalized_titles) ==
    keep_or_skip(hs, key_of(hs[1].hymn_number, norm), norm, seen_hymns,
                 seen_normalized_titles)
deduplicate_from(hs, seen_hymns, seen_normalized_titles) ==
    IF hs = <<>> THEN <<>>
    ELSE with_title(hs, normalized(hs[1]), seen_hymns, seen_normalized_titles)

\* the keys of the runs of the list in the variable returned
returned_keys == {dedup_key(returned[i]) : i \in 1..Len(returned)} \ {None}

\* seen_hymns and seen_normalized_titles are created by every call
deduplicate_SeenKept(hs) == deduplicate_from(hs, returned_keys, {})
deduplicate(hs) == deduplicate_from(hs, {}, {})

\* what analyze_pptx_file returns for the runs collected by the loop
clean_up(hymn) == [hymn EXCEPT !.title = clean_titles[@]]

finished(slides, hs) ==
    deduplicate([i \in 1..Len(hs) |-> clean_up(backfill_title(slides, hs[i]))])

(***************************************************************************)
(* Malayalam/extract_malayalam_hymns.py analyze_pptx_file                  *)
(***************************************************************************)
\* short:           len(all_text.strip()) < 5
\* non_hymn:        is_non_hymn
\* hymn_num, header_title: extract_hymn_number_from_slide(slide), "" and <<>> for None
\* content_text:    extract_title_from_content(slide)
\* section_keyword: has_section_keyword
MalayalamSlide(short, non_hymn, hymn_num, header_title, content_text, section_keyword) ==
    [short |-> short, non_hymn |-> non_hymn, hymn_num |-> hymn_num,
     header_title |-> header_title, content_text |-> content_text,
     section_keyword |-> section_keyword]

\* The slides of the Malayalam model, by the text of their one text box:
\*   Blank          ""
\*   Prayer         "Prayer of confession"
\*   NumberOnly     "Hymn No 171"
\*   NumberAmen     "Hymn No 171" / "Amen"
\*   NumberLyrics   "Hymn No 171" / "Yeshuve nin sneham mathi"
\*   OpeningNumber  "Opening Hymn No 45" / "Sthuthi geetham paadidam"
\*   NumberVerse    "Hymn No 171" / "Sthuthi geetham paadidam"
\*   Manglish       "Yeshuve nin sneham mathi"
\*   HeaderTitle    "Communion Hymn - Daivame ninne"
\*   HeaderTitle2   "Closing Hymn - Karthave nee"
MalayalamSlideKinds ==
    [k \in {"Blank", "Prayer", "NumberOnly", "NumberAmen", "NumberLyrics", "OpeningNumber",
            "NumberVerse", "Manglish", "HeaderTitle", "HeaderTitle2"} |->
     CASE k = "Blank" -> MalayalamSlide(TRUE, FALSE, "", <<>>, <<>>, FALSE)
       [] k = "Prayer" -> MalayalamSlide(FALSE, TRUE, "", <<>>, <<>>, TRUE)
       [] k = "NumberOnly" -> MalayalamSlide(FALSE, FALSE, "171", <<>>, <<>>, FALSE)
       [] k = "NumberAmen" ->
            MalayalamSlide(FALSE, FALSE, "171", <<>>, <<"A", "m", "e", "n">>, FALSE)
       [] k = "NumberLyrics" ->
            MalayalamSlide(FALSE, FALSE, "171", <<>>,
                <<"Y", "e", "s", "h", "u", "v", "e", " ", "n", "i", "n", " ", "s", "n", "e", "h", "a", "m">>,
                FALSE)
       [] k = "OpeningNumber" ->
            MalayalamSlide(FALSE, FALSE, "45", <<>>,
                <<"S", "t", "h", "u", "t", "h", "i", " ", "g", "e", "e", "t", "h", "a", "m", " ", "p", "a", "a", "d", "i", "d", "a", "m">>,
                TRUE)
       [] k = "NumberVerse" ->
            MalayalamSlide(FALSE, FALSE, "171", <<>>,
                <<"S", "t", "h", "u", "t", "h", "i", " ", "g", "e", "e", "t", "h", "a", "m", " ", "p", "a", "a", "d", "i", "d", "a", "m">>,
                FALSE)
       [] k = "Manglish" ->
            MalayalamSlide(FALSE, FALSE, "", <<>>,
                <<"Y", "e", "s", "h", "u", "v", "e", " ", "n", "i", "n", " ", "s", "n", "e", "h", "a", "m">>,
                FALSE)
       [] k = "HeaderTitle" ->
            MalayalamSlide(FALSE, FALSE, "",
                <<"D", "a", "i", "v", "a", "m", "e", " ", "n", "i", "n", "n", "e">>,
                <<>>, TRUE)
       [] k = "HeaderTitle2" ->
            MalayalamSlide(FALSE, FALSE, "",
                <<"K", "a", "r", "t", "h", "a", "v", "e", " ", "n", "e", "e">>,
                <<>>, TRUE)]

\* "if content_text and len(content_text) > 5"
meaningful(content_text) == Len(content_text) > 5

\* the first content title longer than 5 characters on the slides behind idx,
\* down to the slide idx + ahead; <<>> if there is none
RECURSIVE next_title(_, _, _)
next_title(slides, from, to) ==
    IF from > to \/ from > Len(slides) THEN <<>>
    ELSE IF meaningful(MalayalamSlideKinds[slides[from]].content_text)
    THEN MalayalamSlideKinds[slides[from]].content_text
    ELSE next_title(slides, from + 1, to)

\* "if not title or len(title) < 5": the title of a slide ahead, if one has one
title_or_next(title, found) == IF Len(title) < 5 /\ found # <<>> THEN found ELSE title

\* the dictionary of a run that starts on slide idx with the title found for it;
\* first_content_slide is 0 for None
MalayalamRun(s, idx, title) ==
    [hymn_number |-> s.hymn_num,
     title |-> IF meaningful(s.content_text) /\ title = <<>> THEN s.content_text ELSE title,
     title_slide |-> idx,
     content_slides |-> IF meaningful(s.content_text) THEN <<idx>> ELSE <<>>,
     total_slides |-> 0,
     first_content_slide |-> IF meaningful(s.content_text) THEN idx ELSE 0]

new_hymn(slides, s, idx, ahead) ==
    MalayalamRun(s, idx,
        title_or_next(title_or(s.header_title, s.content_text),
                      next_title(slides, idx + 1, idx + ahead)))

is_new_hymn(cur, s) ==
    /\ s.hymn_num # "" \/ s.header_title # <<>>
    /\ \/ cur = <<>>
       \/ /\ cur # <<>>
          /\ \/ s.hymn_num # "" /\ cur[1].hymn_number # "" /\ s.hymn_num # cur[1].hymn_number
             \/ s.header_title # <<>> /\ s.hymn_num = "" /\ cur[1].hymn_number = ""

\* a slide with content that carries a section keyword and a number or title of
\* its own while a run is open
is_new_section(cur, s) ==
    /\ cur # <<>>
    /\ meaningful(s.content_text)
    /\ s.section_keyword
    /\ s.hymn_num # "" \/ s.header_title # <<>>
    /\ cur[1].hymn_number = "" \/ s.hymn_num # cur[1].hymn_number

malayalam_continuation(run, s, idx) ==
    IF run.title = <<>>
    THEN [run EXCEPT !.content_slides = Append(@, idx),
                     !.title = s.content_text,
                     !.first_content_slide = idx]
    ELSE [run EXCEPT !.content_slides = Append(@, idx)]

malayalam_hymns_after(hs, cur, s) ==
    IF s.short \/ s.non_hymn THEN append_open_run(hs, cur)
    ELSE IF is_new_hymn(cur, s) \/ is_new_section(cur, s) THEN append_open_run(hs, cur)
    ELSE hs

malayalam_current_after(slides, cur, s, idx) ==
    IF s.short \/ s.non_hymn THEN after_skip(cur)
    ELSE IF is_new_hymn(cur, s) THEN <<new_hymn(slides, s, idx, 5)>>
    ELSE IF cur = <<>> \/ ~meaningful(s.content_text) THEN cur
    ELSE IF is_new_section(cur, s) THEN <<new_hymn(slides, s, idx, 3)>>
    ELSE <<malayalam_continuation(cur[1], s, idx)>>

\* "for hymn in hymns: hymn['total_slides'] = len(hymn['content_slides'])"
count_slides(hymn) == [hymn EXCEPT !.total_slides = Len(hymn.content_slides)]

\* the file name is the same for all runs of one call
RECURSIVE unique_hymns(_, _)
unique_hymns(hs, seen) ==
    IF hs = <<>> THEN <<>>
    ELSE IF <<hs[1].hymn_number, hs[1].title>> \in seen
    THEN unique_hymns(Tail(hs), seen)
    ELSE <<hs[1]>> \o unique_hymns(Tail(hs), seen \cup {<<hs[1].hymn_number, hs[1].title>>})

malayalam_finished(hs) == unique_hymns([i \in 1..Len(hs) |-> count_slides(hs[i])], {})

(***************************************************************************)
(* Two calls of analyze_pptx_file on one file                              *)
(***************************************************************************)
RECURSIVE SeqsUpTo(_, _)
SeqsUpTo(S, n) ==
    IF n = 0 THEN {<<>>}
    ELSE SeqsUpTo(S, n - 1) \cup
         {Append(q, x) : q \in {p \in SeqsUpTo(S, n - 1) : Len(p) = n - 1}, x \in S}

\* the files: every sequence of at most MaxSlides of the slides
PptxFiles == SeqsUpTo(SlideNames, MaxSlides)
MalayalamPptxFiles == SeqsUpTo(DOMAIN MalayalamSlideKinds, MaxSlides)

SInit ==
    /\ GenInit
    /\ XOff
    /\ FOff
    /\ POff
    /\ GuiOff
    /\ ScanOff
    /\ TOff
    /\ file_slides = <<>>
    /\ slide_idx = 1
    /\ hymns = <<>>
    /\ current_hymn = <<>>
    /\ returned = <<>>
    /\ first_returned = <<>>
    /\ calls = 0
    /\ apc = "idle"
    /\ language = "English"

\* prs = Presentation(pptx_path); hymns = []; current_hymn = None
OpenFile(module, slides) ==
    /\ language' = module
    /\ file_slides' = slides
    /\ slide_idx' = 1
    /\ hymns' = <<>>
    /\ current_hymn' = <<>>
    /\ calls' = 1
    /\ apc' = "scan"
    /\ UNCHANGED <<returned, first_returned>>
    /\ UNCHANGED s_frame

Open ==
    /\ apc = "idle"
    /\ \/ \E slides \in PptxFiles : OpenFile("English", slides)
       \/ \E slides \in MalayalamPptxFiles : OpenFile("Malayalam", slides)

\* one pass of "for slide_idx, slide in enumerate(prs.slides, start=1)"
AnalyzeSlide ==
    /\ apc = "scan"
    /\ slide_idx <= Len(file_slides)
    /\ hymns' =
         IF language = "English"
         THEN hymns_after(hymns, current_hymn, SlideKinds[file_slides[slide_idx]], slide_idx)
         ELSE malayalam_hymns_after(hymns, current_hymn,
                                    MalayalamSlideKinds[file_slides[slide_idx]])
    /\ current_hymn' =
         IF language = "English"
         THEN current_after(current_hymn, SlideKinds[file_slides[slide_idx]], slide_idx)
         ELSE malayalam_current_after(file_slides, current_hymn,
                                      MalayalamSlideKinds[file_slides[slide_idx]], slide_idx)
    /\ slide_idx' = slide_idx + 1
    /\ UNCHANGED <<file_slides, returned, first_returned, calls, apc, language>>
    /\ UNCHANGED s_frame

\* the last run, the passes over the runs, and the return
Finish ==
    /\ apc = "scan"
    /\ slide_idx > Len(file_slides)
    /\ hymns' = append_open_run(hymns, current_hymn)
    /\ returned' =
         IF language = "English"
         THEN finished(file_slides, append_open_run(hymns, current_hymn))
         ELSE malayalam_finished(append_open_run(hymns, current_hymn))
    /\ apc' = "returned"
    /\ UNCHANGED <<file_slides, slide_idx, current_hymn, first_returned, calls, language>>
    /\ UNCHANGED s_frame

\* the second call on the same file
AnalyzeAgain ==
    /\ apc = "returned"
    /\ calls = 1
    /\ first_returned' = returned
    /\ slide_idx' = 1
    /\ hymns' = <<>>
    /\ current_hymn' = <<>>
    /\ calls' = 2
    /\ apc' = "scan"
    /\ UNCHANGED <<file_slides, returned, language>>
    /\ UNCHANGED s_frame

SNext == Open \/ AnalyzeSlide \/ Finish \/ AnalyzeAgain

SpecSegment == SInit /\ [][SNext]_vars

(***************************************************************************)
(* Properties of the run segmenter                                         *)
(***************************************************************************)
carries(hs, title) == \E i \in 1..Len(hs) : hs[i].title = title
carrying(hs, titles) == {i \in 1..Len(hs) : hs[i].title \in titles}

\* C11: the normalisation of the deduplication gives "O for a Thousand Tongues"
\* and "<en dash> O for a thousand tongues <en dash>" the same key, and of the
\* runs of one file that carry these two titles only one is returned, with or
\* without a hymn number on either.
C11_DecoratedTitleDeduplicated ==
    (/\ apc = "returned"
     /\ carries(hymns, ThousandTongues)
     /\ carries(hymns, ThousandTonguesDecorated))
    => /\ normalize_title(ThousandTongues) = normalize_title(ThousandTonguesDecorated)
       /\ Cardinality(carrying(returned, {ThousandTongues, ThousandTonguesDecorated})) = 1

strictly_increasing(q) == \A i \in 1..(Len(q) - 1) : q[i] < q[i + 1]

kept_with_content(run) ==
    /\ Len(run.content_slides) > 0
    /\ strictly_increasing(run.content_slides)
    /\ \A i \in 1..Len(run.content_slides) : run.content_slides[i] >= run.title_slide

\* C12: every run that is closed into the list, and so every run returned, has
\* a content slide list that is not empty, is strictly increasing and holds no
\* index below the title slide of the run; a run closed with no content slide
\* is not in the list.
C12_ReturnedRunsHaveContent ==
    /\ \A i \in 1..Len(hymns) : kept_with_content(hymns[i])
    /\ \A i \in 1..Len(returned) : kept_with_content(returned[i])

\* a run was opened on the first slide and given up without content, and
\* another run of the file is returned with more than one content slide
C12_Witness ==
    /\ apc = "returned"
    /\ language = "English"
    /\ file_slides # <<>>
    /\ file_slides[1] = "NumberedOnly"
    /\ \A i \in 1..Len(hymns) : hymns[i].title_slide # 1
    /\ \E i \in 1..Len(returned) : Len(returned[i].content_slides) > 1

\* C13: for every run returned, the stored total slide count is the length of
\* its content slide list.
C13_TotalIsContentLength ==
    \A i \in 1..Len(returned) :
        returned[i].total_slides = Len(returned[i].content_slides)

\* C14: every run returned has a hymn number or a title that is not empty; a
\* run without both after the backfill and the clean-up is not returned.
C14_NumberOrTitle ==
    \A i \in 1..Len(returned) :
        returned[i].hymn_number # "" \/ returned[i].title # <<>>

at_skipped_slide ==
    /\ apc = "scan"
    /\ slide_idx <= Len(file_slides)
    /\ IF language = "English"
       THEN is_skipped(SlideKinds[file_slides[slide_idx]])
       ELSE \/ MalayalamSlideKinds[file_slides[slide_idx]].short
            \/ MalayalamSlideKinds[file_slides[slide_idx]].non_hymn

\* C20: on a slide that is near-empty, a metadata slide or a non-hymn slide the
\* open run is appended to the list exactly when it has a content slide, and
\* after the slide no run is open.
C20_NoRunOpenAfterSkippedSlide ==
    [][at_skipped_slide
       => /\ current_hymn' = <<>>
          /\ hymns' = IF has_content(current_hymn)
                      THEN Append(hymns, current_hymn[1]) ELSE hymns]_vars

\* the loop is at a slide it does not skip, and the slide carries a hymn number
slide_hymn_num ==
    IF language = "English"
    THEN SlideKinds[file_slides[slide_idx]].hymn_num
    ELSE MalayalamSlideKinds[file_slides[slide_idx]].hymn_num
at_numbered_slide ==
    /\ apc = "scan"
    /\ slide_idx <= Len(file_slides)
    /\ ~at_skipped_slide
    /\ slide_hymn_num # ""
open_with_number(num) == current_hymn # <<>> /\ current_hymn[1].hymn_number = num

\* what C21 says of the step over a slide that carries the number num
numbered_slide_step(num) ==
    IF open_with_number(num)
    THEN /\ hymns' = hymns
         /\ current_hymn' # <<>>
         /\ current_hymn'[1].title_slide = current_hymn[1].title_slide
         /\ current_hymn'[1].content_slides =
                Append(current_hymn[1].content_slides, slide_idx)
    ELSE /\ hymns' = IF has_content(current_hymn)
                     THEN Append(hymns, current_hymn[1]) ELSE hymns
         /\ current_hymn' # <<>>
         /\ current_hymn'[1].hymn_number = num
         /\ current_hymn'[1].title_slide = slide_idx

\* C21: on a slide that carries a hymn number, a run that is open with the
\* same number gets the slide appended; otherwise the open run is closed,
\* appended to the list exactly when it has a content slide, and a new run is
\* opened with this number and this slide as its title slide.
C21_NumberedSlideAppendsOrOpens ==
    [][at_numbered_slide => numbered_slide_step(slide_hymn_num)]_vars

\* the same for the English module alone
NumberedSlideAppendsOrOpensEnglish ==
    [][(at_numbered_slide /\ language = "English")
         => numbered_slide_step(slide_hymn_num)]_vars

\* the text begins with one of the section keywords, in any case
begins_with_section_keyword(t) ==
    \E i \in 1..Len(section_keywords) :
        /\ Len(strip(t)) >= Len(section_keywords[i])
        /\ lower(SubSeq(strip(t), 1, Len(section_keywords[i]))) = lower(section_keywords[i])

\* a run is open and the loop is at the slide "Closing": no hymn number, no
\* section title, a leading section keyword
at_keyword_slide ==
    /\ apc = "scan"
    /\ language = "English"
    /\ slide_idx <= Len(file_slides)
    /\ file_slides[slide_idx] = "Keyword"
    /\ begins_with_section_keyword(ClosingWord)
    /\ current_hymn # <<>>

\* C22: while a run is open, a slide without hymn number and without section
\* title whose text begins with a section keyword closes the run and is not
\* appended to it.
C22_KeywordSlideClosesRun ==
    [][at_keyword_slide
       => /\ current_hymn' = <<>>
          /\ hymns' = append_open_run(hymns, current_hymn)]_vars

\* the titles a run of the Malayalam module can carry, and their normalisation
MalayalamTitles ==
    UNION {{MalayalamSlideKinds[k].header_title, MalayalamSlideKinds[k].content_text} :
           k \in DOMAIN MalayalamSlideKinds}
malayalam_normalized_titles ==
    [title \in MalayalamTitles |-> normalize_title(strip(title))]

\* the normalised title of a run, <<>> when the run has no title
normalised_title(run) ==
    IF strip(run.title) = <<>> THEN <<>>
    ELSE IF language = "English" THEN normalized_titles[run.title]
    ELSE malayalam_normalized_titles[run.title]

share_number(r1, r2) == r1.hymn_number # "" /\ r1.hymn_number = r2.hymn_number
share_title(r1, r2) ==
    normalised_title(r1) # <<>> /\ normalised_title(r1) = normalised_title(r2)

\* the runs collected by the loop as the deduplication sees them
collected ==
    IF language = "English"
    THEN [i \in 1..Len(hymns) |-> clean_up(backfill_title(file_slides, hymns[i]))]
    ELSE hymns

no_two_share_number ==
    \A i, j \in 1..Len(returned) : i < j => ~share_number(returned[i], returned[j])
no_two_share_title ==
    \A i, j \in 1..Len(returned) : i < j => ~share_title(returned[i], returned[j])
in_document_order ==
    \A i \in 1..(Len(returned) - 1) : returned[i].title_slide < returned[i + 1].title_slide
first_of_duplicates_kept ==
    \A i \in 1..Len(collected) :
        \/ \E j \in 1..Len(returned) : returned[j].title_slide = collected[i].title_slide
        \/ \E j \in 1..Len(returned) :
              /\ returned[j].title_slide < collected[i].title_slide
              /\ share_number(returned[j], collected[i]) \/ share_title(returned[j], collected[i])

\* C23: in the list returned for one file no two runs share a hymn number and
\* no two runs share a normalised title that is not empty; a run that is left
\* out duplicates an earlier run that is returned, and the runs returned are
\* in document order.
C23_NoDuplicateRunsReturned ==
    apc = "returned"
    => /\ no_two_share_number
       /\ no_two_share_title
       /\ in_document_order
       /\ first_of_duplicates_kept

\* the same for the English module alone
NoDuplicateRunsReturnedEnglish ==
    (apc = "returned" /\ language = "English")
    => /\ no_two_share_number
       /\ no_two_share_title
       /\ in_document_order
       /\ first_of_duplicates_kept

content_of(run) == {run.content_slides[k] : k \in 1..Len(run.content_slides)}

disjoint_and_ordered(hs) ==
    \A i, j \in 1..Len(hs) :
        i < j => /\ hs[i].title_slide < hs[j].title_slide
                 /\ \A k \in content_of(hs[i]) : k < hs[j].title_slide
                 /\ content_of(hs[i]) \cap content_of(hs[j]) = {}

\* C24: the runs of one file, as the loop emits them and as they are returned,
\* are in increasing order of title slide, every slide of a run precedes the
\* title slide of the runs behind it, and no slide index is a content slide of
\* two runs.
C24_RunsDisjointAndOrdered ==
    /\ disjoint_and_ordered(hymns)
    /\ disjoint_and_ordered(returned)

\* two runs are returned, the first of them with more than one content slide
C24_Witness ==
    /\ apc = "returned"
    /\ Len(returned) = 2
    /\ Len(returned[1].content_slides) > 1
    /\ Len(hymns) = 2

\* the open run awaits its number and the slide at slide_idx gives it one
number_resolved ==
    /\ language = "English"
    /\ apc = "scan"
    /\ current_hymn # <<>>
    /\ current_hymn' # <<>>
    /\ current_hymn[1].needs_hymn_number
    /\ current_hymn[1].hymn_number = ""
    /\ current_hymn'[1].title_slide = current_hymn[1].title_slide
    /\ current_hymn'[1].hymn_number # ""

\* C28: the number the segmenter gives to a run that awaits its number, from
\* a bracketed number on a content slide, is one extract_hymn_number accepts
\* for the text of that slide: it is not below 5 and it is the number
\* extract_hymn_number finds there.
C28_ResolvedNumberAcceptedByExtractor ==
    [][number_resolved
       => /\ int(NumberStrings[current_hymn'[1].hymn_number]) >= 5
          /\ current_hymn'[1].hymn_number = SlideKinds[file_slides[slide_idx]].hymn_num]_vars

(***************************************************************************)
(* PART IV - the Malayalam source search with the KK hymn book as fallback *)
(*                                                                         *)
(* Malayalam/generate_malayalam_hcs_ppt.py find_best_song_source and       *)
(* Malayalam/kk_hymn_search.py find_hymn_in_kk_pptx.  The body of the two  *)
(* loops over the files is the one of the English generator, so            *)
(* consider_candidate, slide_key and record_best of Part I are used for    *)
(* it.  What find_song_slide_indices_in_pptx finds in a regular file is an *)
(* input: regular_found holds one result per regular file and hymn.        *)
(***************************************************************************)
MaxSearches == 2

\* find_all_pptx_files(SEARCH_DIRS)
MalayalamPptx == <<"Easter.pptx", "KK.pptx", "Christmas.pptx", "Kristeeya Keerthanagal.pptx">>

\* "KK" in os.path.basename(pf).upper() or "Kristeeya" in os.path.basename(pf)
is_kk_file(pf) == pf \in {"KK.pptx"} \/ pf \in {"Kristeeya Keerthanagal.pptx"}
is_regular_file(pf) == ~is_kk_file(pf)
kk_files == SelectSeq(MalayalamPptx, is_kk_file)
regular_files == SelectSeq(MalayalamPptx, is_regular_file)

RequestedHymns == {"8", "143"}

\* results of the search of a regular file: nothing, or a title slide followed
\* by two or by four content slides
RegularResults ==
    {NoMatch,
     [title_idx |-> 1, content |-> <<2, 3>>, title |-> ""],
     [title_idx |-> 1, content |-> <<2, 3, 4, 5>>, title |-> ""]}

\* A slide of a KK book, by what the search reads on it:
\*   numbers      the numbers after a dash or among the first half of the words
\*                of a text box that is not in the right corner
\*   footer_hymn  the number behind "Hymn #" in a text box, "" if there is none
\*   counter      <<x, y>> of the "x of y" counter, <<>> if there is none
KKSlide(numbers, footer_hymn, counter) ==
    [numbers |-> numbers, footer_hymn |-> footer_hymn, counter |-> counter]

KKBooks ==
    [pf \in {"KK.pptx", "Kristeeya Keerthanagal.pptx"} |->
        IF pf = "KK.pptx"
        THEN <<KKSlide({"8"}, "8", <<1, 2>>), KKSlide({}, "8", <<2, 2>>),
               KKSlide({"143"}, "143", <<1, 3>>), KKSlide({}, "143", <<2, 3>>),
               KKSlide({}, "143", <<3, 3>>)>>
        ELSE <<KKSlide({"143"}, "", <<1, 2>>), KKSlide({}, "", <<2, 2>>),
               KKSlide({"8"}, "", <<1, 3>>), KKSlide({}, "", <<>>),
               KKSlide({}, "", <<>>), KKSlide({"8"}, "", <<>>)>>]

\* kk_hymn_mapping.json
KK_HYMN_MAPPING == [h \in {"8"} |-> "Sthuthi geetham"]

KKStart ==
    [collecting |-> FALSE, title_slide_idx |-> -1, content_indices |-> <<>>,
     footer_hymn_num_at_start |-> "", last_slide_count |-> 0, stopped |-> FALSE]

\* one pass of the loop of find_hymn_in_kk_pptx; i is the 0-based slide index
kk_slide(s, i, target_hymn_num, st) ==
    IF target_hymn_num \in s.numbers /\ ~st.collecting
    THEN [st EXCEPT !.collecting = TRUE,
                    !.title_slide_idx = i,
                    !.last_slide_count = IF s.counter # <<>> THEN s.counter[2] ELSE 0,
                    !.footer_hymn_num_at_start = s.footer_hymn,
                    !.content_indices = Append(@, i)]
    ELSE IF ~st.collecting THEN st
    ELSE IF /\ s.footer_hymn # ""
            /\ st.footer_hymn_num_at_start # ""
            /\ s.footer_hymn # st.footer_hymn_num_at_start
    THEN [st EXCEPT !.stopped = TRUE]
    ELSE IF /\ st.last_slide_count # 0
            /\ s.counter # <<>>
            /\ s.counter[1] = 1
            /\ Len(st.content_indices) >= st.last_slide_count
    THEN [st EXCEPT !.stopped = TRUE]
    ELSE [st EXCEPT !.content_indices = Append(@, i)]

RECURSIVE kk_scan(_, _, _, _)
kk_scan(slides, k, target_hymn_num, st) ==
    IF k > Len(slides) \/ st.stopped THEN st
    ELSE kk_scan(slides, k + 1, target_hymn_num,
                 kk_slide(slides[k], k - 1, target_hymn_num, st))

\* the triple returned, with the title the caller takes from KK_HYMN_MAPPING
kk_result(st, target_hymn_num) ==
    IF st.content_indices = <<>> THEN NoMatch
    ELSE [title_idx |-> st.title_slide_idx, content |-> st.content_indices,
          title |-> IF target_hymn_num \in DOMAIN KK_HYMN_MAPPING
                    THEN KK_HYMN_MAPPING[target_hymn_num] ELSE ""]

find_hymn_in_kk_pptx(pf, target_hymn_num) ==
    kk_result(kk_scan(KKBooks[pf], 1, target_hymn_num, KKStart), target_hymn_num)

\* "if not best_source": the KK files are searched
search_kk_files_Always(best) == TRUE
search_kk_files(best) == best.source = ""

RegularTables == [{regular_files[i] : i \in 1..Len(regular_files)} \X RequestedHymns
                      -> RegularResults]

FInit ==
    /\ GenInit
    /\ XOff
    /\ SOff
    /\ POff
    /\ GuiOff
    /\ ScanOff
    /\ TOff
    /\ regular_found \in RegularTables
    /\ used_ranges = EmptyMap
    /\ requested_hymn = ""
    /\ best_found = NoSource
    /\ file_pos = 1
    /\ searched = <<>>
    /\ accepted = <<>>
    /\ fpc = "idle"
    /\ fcalls = 0

\* find_best_song_source(hymn_num, song_name) is called
FindBest(h) ==
    /\ fpc \in {"idle", "returned"}
    /\ fcalls < MaxSearches
    /\ requested_hymn' = h
    /\ best_found' = NoSource
    /\ file_pos' = 1
    /\ searched' = <<>>
    /\ accepted' = <<>>
    /\ fpc' = "regular"
    /\ fcalls' = fcalls + 1
    /\ UNCHANGED <<regular_found, used_ranges>>
    /\ UNCHANGED f_frame

FindBestSongSource == \E h \in RequestedHymns : FindBest(h)

\* the candidate r of the file pf is taken or passed over
Consider(pf, r) ==
    /\ best_found' = consider_candidate(pf, r, used_ranges, requested_hymn, best_found)
    /\ searched' = Append(searched, pf)
    /\ accepted' = IF consider_candidate(pf, r, used_ranges, requested_hymn, best_found)
                      # best_found
                   THEN Append(accepted, pf) ELSE accepted
    /\ file_pos' = file_pos + 1
    /\ UNCHANGED <<regular_found, used_ranges, requested_hymn, fpc, fcalls>>
    /\ UNCHANGED f_frame

\* one pass of "for pf in regular_files"
SearchRegular ==
    /\ fpc = "regular"
    /\ file_pos <= Len(regular_files)
    /\ Consider(regular_files[file_pos],
                regular_found[regular_files[file_pos], requested_hymn])

\* the end of the first loop and the test "if not best_source"
RegularDone ==
    /\ fpc = "regular"
    /\ file_pos > Len(regular_files)
    /\ fpc' = IF search_kk_files(best_found) THEN "kk" ELSE "mark"
    /\ file_pos' = 1
    /\ UNCHANGED <<regular_found, used_ranges, requested_hymn, best_found, searched,
                   accepted, fcalls>>
    /\ UNCHANGED f_frame

\* one pass of "for pf in kk_files"
SearchKK ==
    /\ fpc = "kk"
    /\ file_pos <= Len(kk_files)
    /\ Consider(kk_files[file_pos], find_hymn_in_kk_pptx(kk_files[file_pos], requested_hymn))

KKDone ==
    /\ fpc = "kk"
    /\ file_pos > Len(kk_files)
    /\ fpc' = "mark"
    /\ UNCHANGED <<regular_found, used_ranges, requested_hymn, best_found, file_pos,
                   searched, accepted, fcalls>>
    /\ UNCHANGED f_frame

\* the range of the best candidate is marked as used, and the function returns
MarkAndReturn ==
    /\ fpc = "mark"
    /\ used_ranges' = record_best(used_ranges, best_found, requested_hymn).used
    /\ fpc' = "returned"
    /\ UNCHANGED <<regular_found, requested_hymn, best_found, file_pos, searched,
                   accepted, fcalls>>
    /\ UNCHANGED f_frame

FNext ==
    FindBestSongSource \/ SearchRegular \/ RegularDone \/ SearchKK \/ KKDone \/ MarkAndReturn

SpecSource == FInit /\ [][FNext]_vars

(***************************************************************************)
(* Properties of the source search                                         *)
(***************************************************************************)
positions(q, P(_)) == {i \in 1..Len(q) : P(q[i])}

\* C16: a KK file is searched only after every regular file has been searched
\* without a candidate being accepted, and once a regular file's candidate is
\* accepted no KK file is searched and the source returned is a regular file.
C16_KKOnlyAsFallback ==
    /\ positions(searched, is_kk_file) # {}
         => /\ positions(accepted, is_regular_file) = {}
            /\ \A i \in 1..Len(regular_files) : searched[i] = regular_files[i]
            /\ \A i \in positions(searched, is_kk_file) : i > Len(regular_files)
    /\ positions(accepted, is_regular_file) # {}
         => /\ positions(searched, is_kk_file) = {}
            /\ \E i \in 1..Len(regular_files) : best_found.source = regular_files[i]
    /\ (fpc = "returned" /\ is_kk_file(best_found.source))
         => \A i \in 1..Len(regular_files) : searched[i] = regular_files[i]

\* a KK file is returned although a regular file holds the hymn: its range was
\* taken by the other hymn before
C16_Witness ==
    /\ fpc = "returned"
    /\ is_kk_file(best_found.source)
    /\ \E i \in 1..Len(regular_files) :
           regular_found[regular_files[i], requested_hymn].content # <<>>

(***************************************************************************)
(* Property of the template lookup                                         *)
(***************************************************************************)
\* C17: when no template is located, generate_presentation ends with a
\* FileNotFoundError whose message names the file find_template_ppt looks for,
\* with no request processed, no source file searched and no output written,
\* and the only step that follows is the return to the caller.
C17_NoTemplateNothingDone ==
    /\ []((pc # "idle" /\ template_path = "")
            => /\ pc = "failed"
               /\ raised # <<>>
               /\ raised.type = "FileNotFoundError"
               /\ raised.names = template_name
               /\ pos = 1
               /\ section_start = <<>>
               /\ prs = <<>>
               /\ last_search = NoSearch
               /\ output = <<>>)
    /\ [][pc = "failed" => (pc' = "idle" /\ output' = <<>> /\ prs' = <<>>)]_vars

\* a generation with a plan of three requests has failed for want of a template
\* after an earlier generation was saved
C17_Witness ==
    /\ pc = "failed"
    /\ template_path = ""
    /\ Len(song_list) = 3
    /\ generation = 2
    /\ raised = TemplateNotFound

(***************************************************************************)
(* Part V.  Reading the plan file                                          *)
(*                                                                         *)
(* main of the two generators (option --batch) and parse_batch_file of the *)
(* web module read the plan file line by line and build the list of        *)
(* requests.  A line is the sequence of its characters.                    *)
(***************************************************************************)
MaxLines == 3

\* str.startswith(p)
startswith(t, p) == Len(t) >= Len(p) /\ SubSeq(t, 1, Len(p)) = p

\* str.split(sep): the fields between the separators
RECURSIVE split_at(_, _, _)
split_at(t, sep, field) ==
    IF t = <<>> THEN <<field>>
    ELSE IF t[1] = sep THEN <<field>> \o split_at(Tail(t), sep, <<>>)
    ELSE split_at(Tail(t), sep, Append(field, t[1]))
split(t, sep) == split_at(t, sep, <<>>)

\* str.split(sep, 1)[1]: what follows the first separator
RECURSIVE after_first(_, _)
after_first(t, sep) == IF t[1] = sep THEN Tail(t) ELSE after_first(Tail(t), sep)

\* The lines a plan file is made of here.
BlankLine == <<" ", " ">>
LanguageLine == <<"#", " ", "L", "a", "n", "g", "u", "a", "g", "e", ":", " ", "E", "n", "g", "l", "i", "s", "h">>
DateLine == <<"#", " ", "D", "a", "t", "e", ":", " ", "8", " ", "F", "e", "b">>
BareDateLine == <<"d", "a", "t", "e", ":", " ", "8", " ", "F", "e", "b", " ">>
CommentLine == <<"#", "H", "y", "m", "n", "s">>
MessageLine == <<" ", "M", "e", "s", "s", "a", "g", "e">>
TwoFieldLine == <<"1", "4", "3", "|", "O", "p", "e", "n", "i", "n", "g">>
ThreeFieldLine == <<" ", "9", "1", " ", "|", " ", "C", "l", "o", "s", "i", "n", "g", " ", "|", " ", "R", "o", "c", "k", " ">>
NoPipeLine == <<"1", "4", "3", " ", "O", "p", "e", "n", "i", "n", "g">>
PlanLines ==
    [Blank |-> BlankLine, Language |-> LanguageLine, Date |-> DateLine,
     BareDate |-> BareDateLine, Comment |-> CommentLine, Message |-> MessageLine,
     TwoFields |-> TwoFieldLine, ThreeFields |-> ThreeFieldLine, NoPipe |-> NoPipeLine]
BatchFiles == SeqsUpTo({PlanLines[k] : k \in DOMAIN PlanLines}, MaxLines)

Parsers == {"English main", "Malayalam main", "parse_batch_file"}
default_language(p) ==
    IF p = "English main" THEN <<"E", "n", "g", "l", "i", "s", "h">>
    ELSE IF p = "Malayalam main" THEN <<"M", "a", "l", "a", "y", "a", "l", "a", "m">>
    ELSE ""

LanguageDirective == <<"#", " ", "L", "a", "n", "g", "u", "a", "g", "e", ":">>
HashDateDirective == <<"#", " ", "d", "a", "t", "e", ":">>
DateDirective == <<"d", "a", "t", "e", ":">>
MessageWord == <<"m", "e", "s", "s", "a", "g", "e">>
is_date_directive(line) ==
    startswith(lower(line), HashDateDirective) \/ startswith(lower(line), DateDirective)

\* the request appended for a pipe-delimited line, and the one for "Message"
request(parts) ==
    [hymn_num |-> strip(parts[1]),
     label |-> strip(parts[2]),
     title_hint |-> IF Len(parts) > 2 THEN strip(parts[3]) ELSE <<>>]
MessageRequest == [hymn_num |-> <<>>, label |-> <<"M", "e", "s", "s", "a", "g", "e">>, title_hint |-> <<>>]

\* main: what a line that is no directive and no comment adds to songs
songs_with(parts, sofar) ==
    IF Len(parts) >= 2 THEN Append(sofar, request(parts))
    ELSE IF lower(strip(parts[1])) = MessageWord THEN Append(sofar, MessageRequest)
    ELSE sofar

\* main: the body of "for line in f", line already stripped
ParseLineMain(line) ==
    IF line = <<>>
    THEN UNCHANGED <<songs, batch_language, service_date, printed>>
    ELSE IF startswith(line, LanguageDirective)
    THEN /\ batch_language' = strip(after_first(line, ":"))
         /\ printed' = Append(printed, [says |-> "Language set to",
                                        what |-> strip(after_first(line, ":"))])
         /\ UNCHANGED <<songs, service_date>>
    ELSE IF is_date_directive(line)
    THEN /\ service_date' = strip(after_first(line, ":"))
         /\ printed' = Append(printed, [says |-> "Service date set to",
                                        what |-> strip(after_first(line, ":"))])
         /\ UNCHANGED <<songs, batch_language>>
    ELSE IF startswith(line, <<"#">>)
    THEN UNCHANGED <<songs, batch_language, service_date, printed>>
    ELSE /\ songs' = songs_with(split(line, "|"), songs)
         /\ UNCHANGED <<batch_language, service_date, printed>>

\* parse_batch_file: what a line that is no directive, no comment and not
\* "Message" adds to song_list
song_list_with(parts, sofar) ==
    IF Len(parts) < 2 THEN sofar ELSE Append(sofar, request(parts))

\* parse_batch_file: the body of "for line in lines", line already stripped
ParseLineWeb(line) ==
    IF line = <<>>
    THEN UNCHANGED <<songs, batch_language, service_date, printed>>
    ELSE IF is_date_directive(line)
    THEN /\ service_date' = strip(after_first(line, ":"))
         /\ UNCHANGED <<songs, batch_language, printed>>
    ELSE IF startswith(line, <<"#">>)
    THEN UNCHANGED <<songs, batch_language, service_date, printed>>
    ELSE IF lower(line) = MessageWord
    THEN /\ songs' = Append(songs, MessageRequest)
         /\ UNCHANGED <<batch_language, service_date, printed>>
    ELSE /\ songs' = song_list_with(split(line, "|"), songs)
         /\ UNCHANGED <<batch_language, service_date, printed>>

\* parse_batch_file keeps the stripped lines that are not empty
RECURSIVE stripped_lines(_)
stripped_lines(file) ==
    IF file = <<>> THEN <<>>
    ELSE IF strip(file[1]) # <<>> THEN <<strip(file[1])>> \o stripped_lines(Tail(file))
    ELSE stripped_lines(Tail(file))

PInit ==
    /\ GenInit
    /\ XOff
    /\ SOff
    /\ FOff
    /\ GuiOff
    /\ ScanOff
    /\ TOff
    /\ batch_lines = <<>>
    /\ batch_pos = 1
    /\ songs = <<>>
    /\ batch_language = ""
    /\ service_date = "None"
    /\ printed = <<>>
    /\ parser = ""
    /\ ppc = "idle"

\* The reader p opens the plan file.
OpenBatchFile(p, file) ==
    /\ parser' = p
    /\ batch_lines' = IF p = "parse_batch_file" THEN stripped_lines(file) ELSE file
    /\ batch_pos' = 1
    /\ songs' = <<>>
    /\ batch_language' = default_language(p)
    /\ service_date' = "None"
    /\ printed' = IF p = "parse_batch_file" THEN <<>>
                  ELSE <<[says |-> "Reading songs from", what |-> "batch_file"]>>
    /\ ppc' = "lines"
    /\ UNCHANGED p_frame

OpenBatch ==
    /\ ppc \in {"idle", "done"}
    /\ \E p \in Parsers, file \in BatchFiles : OpenBatchFile(p, file)

\* One iteration of the loop over the lines.
ParseLine ==
    /\ ppc = "lines"
    /\ batch_pos <= Len(batch_lines)
    /\ IF parser = "parse_batch_file"
       THEN ParseLineWeb(strip(batch_lines[batch_pos]))
       ELSE ParseLineMain(strip(batch_lines[batch_pos]))
    /\ batch_pos' = batch_pos + 1
    /\ UNCHANGED <<batch_lines, parser, ppc, p_frame>>

\* The loop is over: the list of requests is complete.
ParseDone ==
    /\ ppc = "lines"
    /\ batch_pos > Len(batch_lines)
    /\ ppc' = "done"
    /\ UNCHANGED <<batch_lines, batch_pos, songs, batch_language, service_date, printed,
                   parser, p_frame>>

PNext == OpenBatch \/ ParseLine \/ ParseDone
SpecPlan == PInit /\ [][PNext]_vars

(***************************************************************************)
(* Property of the plan-file reader                                        *)
(***************************************************************************)
blank(line) == strip(line) = <<>>
comment_or_directive(line) ==
    startswith(strip(line), <<"#">>) \/ is_date_directive(strip(line))
bare_message(line) == lower(strip(line)) = MessageWord
pipe_delimited(line) == Len(split(strip(line), "|")) >= 2
malformed(line) ==
    /\ ~blank(line)
    /\ ~comment_or_directive(line)
    /\ ~bare_message(line)
    /\ ~pipe_delimited(line)
well_formed(line) ==
    /\ ~blank(line)
    /\ ~comment_or_directive(line)
    /\ bare_message(line) \/ pipe_delimited(line)
first_field(line) ==
    IF bare_message(line) THEN <<>> ELSE strip(split(strip(line), "|")[1])
at_malformed_line ==
    /\ ppc = "lines"
    /\ batch_pos <= Len(batch_lines)
    /\ malformed(batch_lines[batch_pos])

\* the requests are the well-formed lines, in file order
requests_in_file_order ==
    /\ Len(songs) = Len(SelectSeq(batch_lines, well_formed))
    /\ \A k \in 1..Len(songs) :
          songs[k].hymn_num = first_field(SelectSeq(batch_lines, well_formed)[k])

\* C18: the step over a malformed line adds no request and prints a warning,
\* and when the reader is done the requests are the well-formed lines of the
\* file, those behind a malformed line included, in file order.
C18_MalformedLineSkippedWithWarning ==
    /\ [][(at_malformed_line /\ batch_pos' = batch_pos + 1)
            => (songs' = songs /\ Len(printed') > Len(printed))]_vars
    /\ [](ppc = "done" => requests_in_file_order)

\* the part of C18 the readers keep: a malformed line adds no request, and the
\* lines behind it are parsed in file order
LaterLinesStillParsed ==
    /\ [][(at_malformed_line /\ batch_pos' = batch_pos + 1) => songs' = songs]_vars
    /\ [](ppc = "done" => requests_in_file_order)

\* a file whose malformed first line is followed by two well-formed lines has
\* been read
MalformedThenWellFormed ==
    /\ ppc = "done"
    /\ Len(batch_lines) = 3
    /\ malformed(batch_lines[1])
    /\ Len(songs) = 2

(***************************************************************************)
(* Part VI.  The Generate button of the GUI                                *)
(*                                                                         *)
(* The main thread runs the Tk main loop and handles one click at a time   *)
(* in generate_ppt, which validates the input fields and starts a worker   *)
(* thread running _generate_ppt_thread.  Tk invokes the command of a       *)
(* button only while its state is not "disabled".  The button is disabled  *)
(* by the first statement of the worker, not by generate_ppt, so the main  *)
(* loop and the started workers interleave freely, statement block by      *)
(* statement block.                                                        *)
(***************************************************************************)
MaxClicks == 3

\* what the two input fields can hold: no folder chosen, a path that is gone,
\* a folder without presentations, a folder with presentations
SourceFolders == {"", "missing", "no decks", "decks"}
ServiceTexts == {"", "service list"}

\* the message of the first validation of generate_ppt that fails, "" if none
validation_error(folder, stext) ==
    IF folder = "" THEN "Missing Source Folder"
    ELSE IF folder = "missing" THEN "Source Folder Not Found"
    ELSE IF folder = "no decks" THEN "No PowerPoint Files Found"
    ELSE IF stext = "" THEN "Missing Service List"
    ELSE ""

\* threading.Thread(target=self._generate_ppt_thread).start()
start_thread(ts) == Append(ts, "started")

\* sys.argv and the working directory of the GUI process when it is launched,
\* and the sys.argv the worker sets for the generator
GuiArgv == "gui"
LaunchDir == "launch dir"
BatchArgv == "--batch .temp_service.txt output"
Process(argv, dir) == [argv |-> argv, cwd |-> dir]

GuiInit ==
    /\ GenInit
    /\ XOff
    /\ SOff
    /\ FOff
    /\ POff
    /\ ScanOff
    /\ TOff
    /\ generate_btn = "normal"
    /\ progress = "stopped"
    /\ source_folder = ""
    /\ service_text = ""
    /\ messagebox = ""
    /\ threads = <<>>
    /\ temp_batch_file = FALSE
    /\ output_file = FALSE
    /\ clicks = 0
    /\ sys_argv = GuiArgv
    /\ cwd = LaunchDir
    /\ originals = <<>>
    /\ started_with = <<>>

\* generate_ppt with the fields holding folder and stext
generate_ppt(folder, stext) ==
    /\ source_folder' = folder
    /\ service_text' = stext
    /\ IF validation_error(folder, stext) # ""
       THEN /\ messagebox' = validation_error(folder, stext)
            /\ UNCHANGED threads
       ELSE /\ threads' = start_thread(threads)
            /\ UNCHANGED messagebox

\* A click on the enabled button: the main loop runs generate_ppt.
Click ==
    /\ generate_btn = "normal"
    /\ clicks < MaxClicks
    /\ clicks' = clicks + 1
    /\ \E folder \in SourceFolders, stext \in ServiceTexts : generate_ppt(folder, stext)
    /\ IF Len(threads') > Len(threads)
       THEN /\ originals' = Append(originals, Process("", ""))
            /\ started_with' = Append(started_with, Process(sys_argv, cwd))
       ELSE UNCHANGED <<originals, started_with>>
    /\ UNCHANGED <<generate_btn, progress, temp_batch_file, output_file, sys_argv, cwd,
                   gui_frame>>

\* A click on the disabled button: Tk does not invoke the command.
ClickDisabled ==
    /\ generate_btn = "disabled"
    /\ clicks < MaxClicks
    /\ clicks' = clicks + 1
    /\ UNCHANGED <<generate_btn, progress, source_folder, service_text, messagebox,
                   threads, temp_batch_file, output_file, procvars, gui_frame>>

\* worker t: "Disable button and start progress"
DisableButton(t) ==
    /\ threads[t] = "started"
    /\ generate_btn' = "disabled"
    /\ progress' = "running"
    /\ threads' = [threads EXCEPT ![t] = "preparing"]
    /\ UNCHANGED <<source_folder, service_text, messagebox, temp_batch_file, output_file,
                   clicks, procvars, gui_frame>>

\* worker t: remove an existing output file, write the temporary plan file
WriteTempFile(t) ==
    /\ threads[t] = "preparing"
    /\ output_file' = FALSE
    /\ temp_batch_file' = TRUE
    /\ threads' = [threads EXCEPT ![t] = "generating"]
    /\ UNCHANGED <<generate_btn, progress, source_folder, service_text, messagebox,
                   clicks, procvars, gui_frame>>

\* worker t: the output file cannot be removed or the generator script is not
\* found; the handler of the outer try shows the error
PrepareFails(t) ==
    /\ threads[t] = "preparing"
    /\ messagebox' = "Error"
    /\ threads' = [threads EXCEPT ![t] = "finishing"]
    /\ UNCHANGED <<generate_btn, progress, source_folder, service_text, temp_batch_file,
                   output_file, clicks, procvars, gui_frame>>

\* worker t: "import generate_hcs_ppt" raises; the handler notes the error
ImportFails(t) ==
    /\ threads[t] = "generating"
    /\ threads' = [threads EXCEPT ![t] = "cleaning"]
    /\ UNCHANGED <<generate_btn, progress, source_folder, service_text, messagebox,
                   temp_batch_file, output_file, clicks, procvars, gui_frame>>

\* worker t: original_argv = sys.argv[:], original_cwd = os.getcwd()
SaveOriginals(t) ==
    /\ threads[t] = "generating"
    /\ originals' = [originals EXCEPT ![t] = Process(sys_argv, cwd)]
    /\ threads' = [threads EXCEPT ![t] = "entering"]
    /\ UNCHANGED <<generate_btn, progress, source_folder, service_text, messagebox,
                   temp_batch_file, output_file, clicks, sys_argv, cwd, started_with,
                   gui_frame>>

\* os.chdir(path) raises for no path and for a path that is gone
chdir_raises(path) == path \in {"", "missing"}

\* worker t: sys.argv = [...], os.chdir(self.source_folder.get())
EnterGenerator(t) ==
    /\ threads[t] = "entering"
    /\ sys_argv' = BatchArgv
    /\ cwd' = IF chdir_raises(source_folder) THEN cwd ELSE source_folder
    /\ threads' = [threads EXCEPT ![t] = IF chdir_raises(source_folder) THEN "restoring"
                                         ELSE "in main"]
    /\ UNCHANGED <<generate_btn, progress, source_folder, service_text, messagebox,
                   temp_batch_file, output_file, clicks, originals, started_with,
                   gui_frame>>

\* worker t: generate_hcs_ppt.main() returns or raises, having written the
\* output file or not
RunGenerator(t, written) ==
    /\ threads[t] = "in main"
    /\ output_file' = (output_file \/ written)
    /\ threads' = [threads EXCEPT ![t] = "restoring"]
    /\ UNCHANGED <<generate_btn, progress, source_folder, service_text, messagebox,
                   temp_batch_file, clicks, procvars, gui_frame>>

\* worker t: "finally: sys.argv = original_argv; os.chdir(original_cwd)"
RestoreOriginals(t) ==
    /\ threads[t] = "restoring"
    /\ sys_argv' = originals[t].argv
    /\ cwd' = originals[t].cwd
    /\ threads' = [threads EXCEPT ![t] = "cleaning"]
    /\ UNCHANGED <<generate_btn, progress, source_folder, service_text, messagebox,
                   temp_batch_file, output_file, clicks, originals, started_with,
                   gui_frame>>

\* worker t: "finally: if temp_batch_file.exists(): temp_batch_file.unlink()"
RemoveTempFile(t) ==
    /\ threads[t] = "cleaning"
    /\ temp_batch_file' = FALSE
    /\ threads' = [threads EXCEPT ![t] = "reporting"]
    /\ UNCHANGED <<generate_btn, progress, source_folder, service_text, messagebox,
                   output_file, clicks, procvars, gui_frame>>

\* worker t: "Check success"
ReportOutcome(t) ==
    /\ threads[t] = "reporting"
    /\ messagebox' = IF output_file THEN "Success!" ELSE "Generation Failed"
    /\ threads' = [threads EXCEPT ![t] = "finishing"]
    /\ UNCHANGED <<generate_btn, progress, source_folder, service_text, temp_batch_file,
                   output_file, clicks, procvars, gui_frame>>

\* worker t: the finally block, "Re-enable button and stop progress"
EnableButton(t) ==
    /\ threads[t] = "finishing"
    /\ progress' = "stopped"
    /\ generate_btn' = "normal"
    /\ threads' = [threads EXCEPT ![t] = "finished"]
    /\ UNCHANGED <<source_folder, service_text, messagebox, temp_batch_file, output_file,
                   clicks, procvars, gui_frame>>

_generate_ppt_thread(t) ==
    \/ DisableButton(t)
    \/ WriteTempFile(t)
    \/ PrepareFails(t)
    \/ ImportFails(t)
    \/ SaveOriginals(t)
    \/ EnterGenerator(t)
    \/ \E written \in BOOLEAN : RunGenerator(t, written)
    \/ RestoreOriginals(t)
    \/ RemoveTempFile(t)
    \/ ReportOutcome(t)
    \/ EnableButton(t)

Worker == \E t \in 1..Len(threads) : _generate_ppt_thread(t)

GuiNext == Click \/ ClickDisabled \/ Worker
SpecGui == GuiInit /\ [][GuiNext]_vars

(***************************************************************************)
(* Property of the Generate button                                         *)
(***************************************************************************)
\* the worker threads that have been started and have not finished
in_progress == {t \in 1..Len(threads) : threads[t] # "finished"}

\* C19: at most one generation is in progress at any time, and a click that
\* arrives while a generation is in progress starts no worker thread.
C19_AtMostOneGeneration ==
    /\ [](Cardinality(in_progress) <= 1)
    /\ [][(in_progress # {} /\ clicks' = clicks + 1) => threads' = threads]_vars

\* worker t leaves the in-process call: its last finally block has run
call_left(t) == threads[t] = "cleaning" /\ threads'[t] = "reporting"

\* C30: when the in-process generator call of a worker has returned or raised,
\* sys.argv and the working directory are what they were before the worker
\* was started and the temporary plan file does not exist, whether the
\* generation succeeded or failed.
C30_ProcessStateRestored ==
    [][\A t \in 1..Len(threads) :
           call_left(t) => /\ sys_argv' = started_with[t].argv
                           /\ cwd' = started_with[t].cwd
                           /\ ~temp_batch_file']_vars

\* the same while no other worker has been started
ProcessStateRestoredForSingleWorker ==
    [][\A t \in 1..Len(threads) :
           (call_left(t) /\ Len(threads) = 1)
           => /\ sys_argv' = started_with[t].argv
              /\ cwd' = started_with[t].cwd
              /\ ~temp_batch_file']_vars

(***************************************************************************)
(* Part VII.  The search of one source file, slide by slide                *)
(*                                                                         *)
(* find_song_slide_indices_in_pptx of the English generator as a loop: one *)
(* step per slide with ScanSlide of Part I, then the return of the triple. *)
(* The files are all short sequences of four slides: the title slide of    *)
(* hymn 42, the title slide of hymn 55, a lyrics slide and a divider.      *)
(***************************************************************************)
MaxDeck == 4

DeckSlides ==
    {TitleSlide("42", "Opening", "amazing grace"),
     TitleSlide("55", "Closing", "abide with me"),
     LyricsSlide(""),
     DividerSlide}
Decks == SeqsUpTo(DeckSlides, MaxDeck)

ScanInit ==
    /\ GenInit
    /\ XOff
    /\ SOff
    /\ FOff
    /\ POff
    /\ GuiOff
    /\ TOff
    /\ scan_deck = <<>>
    /\ scan_target = ""
    /\ scan_hint = ""
    /\ scan_state = InitScan
    /\ scan_i = 1
    /\ scan_found = NoMatch
    /\ scan_pc = "idle"

\* the call for hymn 42, with or without its title as hint, on the slides deck
ScanStart(deck, hint) ==
    /\ scan_deck' = deck
    /\ scan_target' = "42"
    /\ scan_hint' = hint
    /\ scan_state' = InitScan
    /\ scan_i' = 1
    /\ scan_found' = NoMatch
    /\ scan_pc' = "loop"
    /\ UNCHANGED scan_frame

ScanOpen ==
    /\ scan_pc = "idle"
    /\ \E deck \in Decks, hint \in {"", "amazing grace"} : ScanStart(deck, hint)

\* one iteration of "for i, slide in enumerate(prs.slides)"
ScanStep ==
    /\ scan_pc = "loop"
    /\ scan_i <= Len(scan_deck)
    /\ ~scan_state.stopped
    /\ scan_state' = ScanSlide(scan_deck[scan_i], scan_i - 1, scan_target, scan_hint,
                               title_search_phrase(scan_hint), scan_state)
    /\ scan_i' = scan_i + 1
    /\ UNCHANGED <<scan_deck, scan_target, scan_hint, scan_found, scan_pc, scan_frame>>

\* the loop is over or was left by break: the triple is returned
ScanReturn ==
    /\ scan_pc = "loop"
    /\ scan_i > Len(scan_deck) \/ scan_state.stopped
    /\ scan_found' = scan_result(scan_deck, scan_state)
    /\ scan_pc' = "returned"
    /\ UNCHANGED <<scan_deck, scan_target, scan_hint, scan_state, scan_i, scan_frame>>

ScanNext == ScanOpen \/ ScanStep \/ ScanReturn
SpecScan == ScanInit /\ [][ScanNext]_vars

(***************************************************************************)
(* Property of the search of one file                                      *)
(***************************************************************************)
\* the run of the request that starts at the slide in position k: what the
\* loop collects when it is started there; no content if the slide in
\* position k does not start a run
run_from(k) ==
    scan_result(scan_deck,
                ScanFrom(scan_deck, k, scan_target, scan_hint,
                         title_search_phrase(scan_hint), InitScan))
starts_run(k) == run_from(k).title_idx = k - 1
matching_runs == {k \in 1..Len(scan_deck) : starts_run(k)}

\* C25: the candidate reported for a file is the run matching the request
\* that has the most content slides; a first match without content slides
\* does not hide a later match with content slides.
C25_LargestRunOfFileReported ==
    scan_pc = "returned"
    => \A k \in matching_runs : Len(scan_found.content) >= Len(run_from(k).content)

(***************************************************************************)
(* PART VIII - the title of a heading and the key of a title (English)     *)
(*                                                                         *)
(* The slide read by extract_title_from_slide_heading has one text box     *)
(* with one paragraph of one run, so run.text and shape.text_frame.text    *)
(* are the same one-line text.                                             *)
(***************************************************************************)
MaxPieces == 3

Pieces == {
    <<"O", "p", "e", "n", "i", "n", "g", " ", "H", "y", "m", "n">>,
    <<"H", "y", "m", "n", " ", "4", "2">>,
    <<" ", "-", " ">>,
    <<"R", "o", "c", "k", " ", "o", "f", " ", "A", "g", "e", "s">>,
    <<"A", "b", "i", "d", "e", " ", "w", "i", "t", "h", " ", "m", "e">>,
    <<"B", "e", " ", "s", "t", "i", "l", "l">>,
    <<" ", "v", "1">>,
    <<" ", "v", "2">>,
    <<"\"">> }

Part == LitI(<<"P", "a", "r", "t">>)
Thanksgiving == LitI(<<"T", "h", "a", "n", "k", "s", "g", "i", "v", "i", "n", "g">>)
OpeningHymn == Cat(<<LitI(<<"O", "p", "e", "n", "i", "n", "g">>), Plus(WS), LitI(<<"H", "y", "m">>), Opt(CharSet({"n", "N"}))>>)
ClosingHymn == Cat(<<LitI(<<"C", "l", "o", "s", "i", "n", "g">>), Plus(WS), LitI(<<"H", "y", "m">>), Opt(CharSet({"n", "N"}))>>)
HeadingLabel ==
    Alt(<<Offertory, OpeningHymn, ClosingHymn, Communion,
          Cat(<<Holy, Plus(WS), Communion>>), Confession, Thanksgiving>>)
OptNo == Opt(Cat(<<No, OptDot>>))

\* part_pattern, and the same expression without its anchors
part_pattern ==
    Pattern(Cat(<<BeginOfText, Part, Plus(WS), Plus(Digit), Star(WS), CharSet({":"}), Star(WS)>>),
            Rep(Dot, 1, Inf, FALSE),
            Cat(<<Star(WS), CharSet({"("}), Plus(Digit), CharSet({")"}), EndOfText>>))
part_in_line ==
    Pattern(Cat(<<Part, Plus(WS), Plus(Digit), Star(WS), CharSet({":"}), Star(WS)>>),
            Rep(Dot, 1, Inf, FALSE),
            Cat(<<Star(WS), CharSet({"("}), Plus(Digit), CharSet({")"})>>))

section_patterns == <<
    Pattern(Cat(<<BeginOfText, HeadingLabel, Star(WS), DashClass, Star(WS)>>),
            Plus(Dot), EndOfText),
    Pattern(Cat(<<BeginOfText, Hymn, Plus(WS), OptNo, Star(WS), Plus(Digit), Star(WS),
                  DashClass, Star(WS)>>),
            Plus(Dot), EndOfText),
    Pattern(Cat(<<BeginOfText, HeadingLabel, Star(WS), DashClass, Star(WS), Song, OptDot,
                  Star(WS), OptNo, Star(WS), Plus(Digit), Star(WS), DashClass, Star(WS)>>),
            Plus(Dot), EndOfText) >>

\* the three clean-up expressions, which are compiled without re.IGNORECASE
SlideCounter ==
    Cat(<<Star(WS), Plus(Digit), Star(WS), CharSet({":"}), Star(WS), Plus(Digit), Plus(WS),
          Lit(<<"o", "f">>), Plus(WS), Plus(Digit), Star(Dot), EndOfText>>)
TrailingNumber == Cat(<<Plus(WS), Plus(Digit), Star(WS), EndOfText>>)
TrailingPunctuation == Cat(<<Plus(CharSet({".", "!"})), EndOfText>>)
FooterCounter ==
    Cat(<<Plus(Digit), Star(WS), CharSet({":"}), Star(WS), Plus(Digit), Plus(WS),
          Lit(<<"o", "f">>), Plus(WS), Plus(Digit)>>)
OnlyDigits == Cat(<<BeginOfText, Plus(Digit), EndOfText>>)

\* c.isalpha() and c.isspace() summed over a text
Alphabetic == Letters \cup {"U+00C4", "U+00EC", "U+00E4", "U+00CC"}
letters_of(t) == Cardinality({i \in 1..Len(t) : t[i] \in Alphabetic})
spaces_of(t) == Cardinality({i \in 1..Len(t) : t[i] \in Whitespace})

\* title after the three re.sub calls
cleaned_title(group) ==
    re_sub(TrailingPunctuation, <<>>,
    re_sub(TrailingNumber, <<>>,
    re_sub(SlideCounter, <<>>, strip(group))))

\* "if len(title) > 5 and len(title) < 100" and "if letters > 10"
looks_valid(title) == Len(title) > 5 /\ Len(title) < 100 /\ letters_of(title) > 10

\* the loop over section_patterns from pattern k on: the title it returns,
\* <<>> if it returns none
RECURSIVE title_from_section_patterns(_, _)
title_of_match(t, k, group) ==
    IF group = None THEN title_from_section_patterns(t, k + 1)
    ELSE IF has_indicator(cleaned_title(group)) THEN title_from_section_patterns(t, k + 1)
    ELSE IF looks_valid(cleaned_title(group)) THEN cleaned_title(group)
    ELSE title_from_section_patterns(t, k + 1)
title_from_section_patterns(t, k) ==
    IF k > Len(section_patterns) THEN <<>>
    ELSE title_of_match(t, k, re_search_group(section_patterns[k], t))

title_of_part(group, otherwise) ==
    IF group # None /\ Len(strip(group)) > 5 THEN strip(group) ELSE otherwise

\* the first loop, for the one run of the slide
title_from_run(t) ==
    IF Len(t) < 10 THEN <<>>
    ELSE title_of_part(re_search_group(part_pattern, t), title_from_section_patterns(t, 1))

first_60(t) == SubSeq(t, 1, IF Len(t) < 60 THEN Len(t) ELSE 60)

title_like_line(line) ==
    IF Len(line) < 10 \/ re_search(OnlyDigits, line) THEN <<>>
    ELSE IF re_search(FooterCounter, line) THEN <<>>
    ELSE IF letters_of(line) > 15 /\ spaces_of(line) >= 2
              /\ Len(re_sub(TrailingNumber, <<>>, line)) > 5
    THEN first_60(re_sub(TrailingNumber, <<>>, line))
    ELSE <<>>

\* the fallback loop, for the one line of the text box
title_from_line(line) ==
    title_of_part(re_search_group(part_in_line, line), title_like_line(line))

extract_title_from_slide_heading(t) ==
    IF title_from_run(strip(t)) # <<>> THEN title_from_run(strip(t))
    ELSE title_from_line(strip(strip(t)))

TInit ==
    /\ GenInit
    /\ XOff
    /\ SOff
    /\ FOff
    /\ POff
    /\ GuiOff
    /\ ScanOff
    /\ heading_text = <<>>
    /\ heading_pieces = 0
    /\ returned_title = None
    /\ normalized_title = None
    /\ tpc = "building"

AppendPiece(piece) ==
    /\ tpc = "building"
    /\ heading_pieces < MaxPieces
    /\ heading_text' = heading_text \o piece
    /\ heading_pieces' = heading_pieces + 1
    /\ UNCHANGED <<returned_title, normalized_title, tpc>>
    /\ UNCHANGED t_frame

\* title = extract_title_from_slide_heading(slide)
ExtractTitle ==
    /\ tpc = "building"
    /\ returned_title' = extract_title_from_slide_heading(heading_text)
    /\ tpc' = "extracted"
    /\ UNCHANGED <<heading_text, heading_pieces, normalized_title>>
    /\ UNCHANGED t_frame

\* the deduplication loop with the text as hymn['title']
NormalizeTitle ==
    /\ tpc = "building"
    /\ strip(heading_text) # <<>>
    /\ normalized_title' = normalize_title(strip(heading_text))
    /\ tpc' = "normalized"
    /\ UNCHANGED <<heading_text, heading_pieces, returned_title>>
    /\ UNCHANGED t_frame

TNext ==
    \/ \E piece \in Pieces : AppendPiece(piece)
    \/ ExtractTitle
    \/ NormalizeTitle

SpecTitle == TInit /\ [][TNext]_vars

\* the first of section_patterns that matches the text, and what it captures
matching_patterns(t) ==
    {k \in 1..Len(section_patterns) : re_search_group(section_patterns[k], strip(t)) # None}
first_matching(t) == CHOOSE k \in matching_patterns(t) : \A j \in matching_patterns(t) : k <= j
captured_title(t) == cleaned_title(re_search_group(section_patterns[first_matching(t)], strip(t)))
label_prefixed(t) == Len(strip(t)) >= 10 /\ matching_patterns(t) # {}

\* C26: the title captured from a label-prefixed heading is what
\* extract_title_from_slide_heading returns exactly when it has at least 6
\* characters and at least 10 letters; with exactly 10 letters it is returned.
C26_CapturedTitleReturnedFromTenLetters ==
    (tpc = "extracted" /\ label_prefixed(heading_text))
    => (returned_title = captured_title(heading_text)
        <=> (Len(captured_title(heading_text)) >= 6
             /\ letters_of(captured_title(heading_text)) >= 10))

\* the same with the bounds of the code: more than 5 characters, more than 10 letters
CapturedTitleReturnedFromElevenLetters ==
    (tpc = "extracted" /\ label_prefixed(heading_text))
    => (returned_title = captured_title(heading_text)
        <=> (Len(captured_title(heading_text)) > 5
             /\ letters_of(captured_title(heading_text)) > 10))

\* C27: the normalisation of the deduplication is idempotent: normalising a
\* normalised title gives that title again.
C27_NormalisationIdempotent ==
    tpc = "normalized" => normalize_title(strip(normalized_title)) = normalized_title

====
